---- MODULE Spec2Model ----
(***************************************************************************)
(* The WASM-EVM bridging interpreter (core/vm/wasm.go) together with its   *)
(* trace recorder, the WebAssemblyLogger.                                  *)
(*                                                                         *)
(* The Wasm engine and the EVM jump table are collaborators outside the    *)
(* repository: the engine is the environment that steps through the guest  *)
(* code, reports every instruction through the logs callback and invokes   *)
(* the registered host functions; the jump table supplies an opcode's      *)
(* constant gas, its dynamic gas and the outcome of its execution.         *)
(***************************************************************************)
EXTENDS Integers, Sequences, FiniteSets, TLC

VARIABLES
    debug,       \* in.config.Debug (the tracer is always a WebAssemblyLogger)
    limit,       \* WebAssemblyLogger.cfg.Limit (0: no limit)
    depth,       \* in.evm.depth
    stateQueue,  \* in.stateQueue: one scope per active Run, scope = [Gas: contract gas]
    readOnly,    \* in.readOnly
    returnData,  \* in.returnData
    logs,        \* WebAssemblyLogger.logs
    frames,      \* the Go call stack: one entry per Run that reached ComputeResult
    lastRun,     \* what the Run that returned last was given and what it returned
    panicking,   \* kind of the panic value that is propagating out of a Run
    nRuns,       \* number of Run invocations so far
    nSteps,      \* number of Wasm instructions the engine reported so far
    logger,      \* the WebAssemblyLogger apart from its logs: configuration, interrupt,
                 \* reason, storage, output, err, globals, functionCalls, globalMemory
    world        \* what lies outside the interpreter: the StateDB storage of the
                 \* contract, the code of a Contract object that is run repeatedly,
                 \* the linear memory of the engine and the memory changes it was
                 \* handed, and the last call made on the guest memory view

vars == <<debug, limit, depth, stateQueue, readOnly, returnData, logs, frames, lastRun,
          panicking, nRuns, nSteps, logger, world>>

---------------------------------------------------------------------------
(* Bounds of the model *)

MaxRuns == 3
MaxSteps == 3
\* the call depth limit, 1024 in the program (wasm.go:119), scaled to the nesting
\* the model reaches
CallCreateDepth == 2
\* longest function body handed to the injector
MaxBody == 3
\* number of deployment-mode Runs on one Contract object
MaxPasses == 2

(* Inputs *)

\* gas limits a contract is called with (part_000:164 and part_000:254)
GasLimits == {10, 10000000}
\* amounts passed to env.gas: a zero charge and the block costs of
\* hello_injected.wat (part_001:15, :30), both above the small gas limit
GasAmounts == {0, 2750, 7086}
\* dynamic gas an opcode may be priced at
DynCosts == {3}
\* the readOnly argument of the outermost Run: an ordinary call
ReadOnlyArgs == {FALSE}
\* a function body as the injector reads it: instructions with one immediate
Instr(op, n) == [op |-> op, n |-> n]
\* index of the imported function env.gas (part_001:12)
GasImportIndex == 6
\* a guest that calls an import and ends
HelloCode == <<Instr("call", 0), Instr("end", 0)>>
\* contract codes: none, and a Wasm module
Codes == {<<>>, HelloCode}
\* the call input of the runs of Spec: empty, the deployment mode (part_000:216)
Inputs == {"empty"}
\* call inputs: empty and not empty (part_000:164)
AnyInputs == {"empty", "nonempty"}
\* byte strings handed to RETURN and REVERT
Data == {"d1", "d2"}

\* opcodes registered as host functions (registerNativeFunctions) that the model exercises
PlainOps == {"ADDRESS", "STOP", "RETURN", "REVERT", "RETURNDATACOPY"}
CallOps == {"CALL"}
\* the opcodes of _evm_sload and _evm_sstore
StorageOps == {"SLOAD", "SSTORE"}
\* storage slots and values the guests use
Keys == {1, 2}
Vals == {7}
\* the guest pointer _evm_sload is given for its result
DestPtr == 64

\* constantGas of the London jump table entry of an opcode (op.constantGas)
constantGas(op) ==
    CASE op \in {"ADDRESS", "CALLDATASIZE", "TIMESTAMP"} -> 2
      [] op = "RETURNDATACOPY" -> 3
      [] op \in {"CALL", "BALANCE"} -> 100
      [] OTHER -> 0

\* op.dynamicGas # nil: the opcodes priced by memory expansion or call gas
hasDynamicGas(op) ==
    op \in {"RETURN", "REVERT", "RETURNDATACOPY", "CALL", "SLOAD", "SSTORE"}

\* the error op.execute returns (RETURNDATACOPY is given a range outside the return
\* data)
executeErr(op) ==
    CASE op \in {"STOP", "RETURN"} -> "errStopToken"
      [] op = "REVERT" -> "ErrExecutionReverted"
      [] op = "RETURNDATACOPY" -> "ErrReturnDataOutOfBounds"
      [] OTHER -> "nil"

RECURSIVE Sum(_)
Sum(s) == IF s = <<>> THEN 0 ELSE Head(s) + Sum(Tail(s))

Last(s) == s[Len(s)]

---------------------------------------------------------------------------
(* Contract *)

\* Contract.UseGas: whether the charge succeeds, and the gas left after it
UseGasOk(gas, amount) == gas >= amount
UseGas(gas, amount) == IF gas < amount THEN gas ELSE gas - amount

---------------------------------------------------------------------------
(* The injector, injectGasComputationAndStackProtection: its gas computation *)

\* the instructions that end a basic block
BlockEnds ==
    {"block", "loop", "if", "else", "end", "br", "br_if", "br_table", "return",
     "call", "call_indirect"}

\* static cost of an instruction in the injector's table
staticCost(ins) == 1

\* length of the first basic block of a body that is not empty
BlockLen(body) ==
    LET ends == {i \in 1..Len(body) : body[i].op \in BlockEnds}
    IN  IF ends = {} THEN Len(body)
        ELSE CHOOSE i \in ends : \A j \in ends : i <= j

\* cost of a block: the sum of the static costs of its instructions
BlockCost(blk) == Sum([i \in 1..Len(blk) |-> staticCost(blk[i])])

RECURSIVE inject(_)
\* at the head of each basic block: i64.const <block cost>; call $gas
inject(body) ==
    IF body = <<>> THEN <<>>
    ELSE LET n == BlockLen(body)
             blk == SubSeq(body, 1, n)
         IN  <<Instr("i64.const", BlockCost(blk)), Instr("call", GasImportIndex)>>
                 \o blk \o inject(SubSeq(body, n + 1, Len(body)))

---------------------------------------------------------------------------
(* WebAssemblyLogger *)

\* a map without entries
EmptyMap == [k \in {} |-> 0]

\* m with key k set to v
Put(m, k, v) == [x \in DOMAIN m \cup {k} |-> IF x = k THEN v ELSE m[x]]

\* NewWebAssemblyLogger(cfg): the logger apart from logs and cfg.Limit; env is set by
\* CaptureStart, cancels counts the calls of env.Cancel; a nil map is the map without
\* entries; last and dumps remember the calls made, for the properties
NewWebAssemblyLogger(enableMemory, disableStorage) ==
    [EnableMemory |-> enableMemory, DisableStorage |-> disableStorage,
     env |-> FALSE, interrupt |-> 0, reason |-> "nil",
     storage |-> EmptyMap, output |-> <<>>, err |-> "nil",
     globals |-> <<>>, functionCalls |-> <<>>, globalMemory |-> EmptyMap,
     cancels |-> 0, last |-> "none", dumps |-> <<>>]

\* lgr with the name of the method that was just called on it
Called(name, lgr) == [lgr EXCEPT !.last = name]

\* the logger of newWasmMachine (part_000:39-46), attached to the EVM by evm.Call
TestLogger == [NewWebAssemblyLogger(FALSE, FALSE) EXCEPT !.env = TRUE]

\* no call was made on the guest memory view yet, and no host function was called
NoCall ==
    [op |-> "none", offset |-> 0, size |-> 0, ret |-> <<>>, n |-> 0, commit |-> FALSE,
     nChanges |-> 0, memory0 |-> <<>>, params |-> <<>>, input |-> <<>>,
     presented |-> FALSE, stack |-> <<>>, after |-> <<>>, err |-> "nil"]

\* a fresh in-memory state: no storage slot is set, no contract object is tracked, the
\* engine holds no module
FreshWorld ==
    [storage |-> EmptyMap, code |-> <<>>, prev |-> <<>>, passes |-> 0,
     memory |-> <<>>, changes |-> <<>>, call |-> NoCall]

\* the check of CaptureGasState and CaptureState: the last record is a WASM `call`
TraceOrderOk(lg) ==
    /\ Len(lg) > 0
    /\ Last(lg).family = "WASM"
    /\ Last(lg).op = "call"

\* the check of CaptureWasmState and CaptureState: the log holds cfg.Limit records
Limited(lg) == limit # 0 /\ limit <= Len(lg)

\* the check at the head of every capture point: Stop was called
Interrupted == logger.interrupt > 0

\* env.Cancel(), called by a capture point that finds the tracer stopped
Cancel(lgr) == [lgr EXCEPT !.cancels = @ + 1]

\* the logger after a capture point's interrupt check
AfterCapture(lgr) == IF lgr.interrupt > 0 THEN Cancel(lgr) ELSE lgr

\* the nil *MemoryChangeInfo of an instruction that does not write memory
NilMemory == [nil |-> TRUE, Offset |-> 0, Value |-> <<>>]

\* memory is nil or the change [Offset, Value] of the instruction; it is copied only
\* with cfg.EnableMemory
CaptureWasmState(lg, pc, op, memory, stack, gas, d) ==
    IF Interrupted \/ Limited(lg) THEN lg
    ELSE LET copy == logger.EnableMemory /\ ~memory.nil
         IN  Append(lg, [family |-> "WASM", op |-> op, pc |-> pc, gas |-> gas,
                         gasCost |-> 0,
                         memory |-> IF copy THEN memory.Value ELSE <<>>,
                         memOffset |-> IF copy THEN memory.Offset ELSE 0,
                         memSize |-> IF copy THEN Len(memory.Value) ELSE 0,
                         stack |-> stack, storage |-> EmptyMap,
                         depth |-> d, err |-> "nil"])

\* CaptureGasState recording the overshoot instead of the amount
CaptureGasStateOvershoot(lg, gasCost, gas, d, err) ==
    [lg EXCEPT ![Len(lg)] =
        [family |-> "GAS", op |-> "gas", pc |-> Last(lg).pc, gas |-> gas,
         gasCost |-> IF gasCost > gas THEN gasCost - gas ELSE gasCost,
         memory |-> Last(lg).memory, memOffset |-> Last(lg).memOffset,
         memSize |-> Last(lg).memSize, stack |-> Last(lg).stack, storage |-> EmptyMap,
         depth |-> d, err |-> err]]

\* CaptureGasState recording the gas that is left once the amount is paid
CaptureGasStateAfter(lg, gasCost, gas, d, err) ==
    [lg EXCEPT ![Len(lg)] =
        [family |-> "GAS", op |-> "gas", pc |-> Last(lg).pc,
         gas |-> IF gasCost > gas THEN gas ELSE gas - gasCost,
         gasCost |-> gasCost,
         memory |-> Last(lg).memory, memOffset |-> Last(lg).memOffset,
         memSize |-> Last(lg).memSize, stack |-> Last(lg).stack, storage |-> EmptyMap,
         depth |-> d, err |-> err]]

\* CaptureGasState dropping the stack snapshot of the `call` record
CaptureGasStateNoStack(lg, gasCost, gas, d, err) ==
    IF Interrupted THEN lg
    ELSE [lg EXCEPT ![Len(lg)] =
            [family |-> "GAS", op |-> "gas", pc |-> Last(lg).pc, gas |-> gas,
             gasCost |-> gasCost,
             memory |-> Last(lg).memory, memOffset |-> Last(lg).memOffset,
             memSize |-> Last(lg).memSize, stack |-> <<>>, storage |-> EmptyMap,
             depth |-> d, err |-> err]]

\* the record CaptureGasState builds; it is stored in place of the last record
CaptureGasState(lg, gasCost, gas, d, err) ==
    IF Interrupted THEN lg
    ELSE [lg EXCEPT ![Len(lg)] =
            [family |-> "GAS", op |-> "gas", pc |-> Last(lg).pc, gas |-> gas,
             gasCost |-> gasCost,
             memory |-> Last(lg).memory, memOffset |-> Last(lg).memOffset,
             memSize |-> Last(lg).memSize, stack |-> Last(lg).stack, storage |-> EmptyMap,
             depth |-> d, err |-> err]]

\* CaptureState appending without dropping the `call` record
CaptureStateKeepCall(lg, op, storage, gas, cost, d, err) ==
    Append(lg, [family |-> "EVM", op |-> op, pc |-> Last(lg).pc, gas |-> gas,
                gasCost |-> cost,
                memory |-> Last(lg).memory, memOffset |-> Last(lg).memOffset,
                memSize |-> Last(lg).memSize, stack |-> Last(lg).stack,
                storage |-> storage, depth |-> d, err |-> err])

\* CaptureState drops the last record and appends the EVM record built from it;
\* storage is the storage delta it computed for SLOAD and SSTORE, nil otherwise
CaptureState(lg, op, storage, gas, cost, d, err) ==
    IF Interrupted \/ Limited(lg) THEN lg
    ELSE Append(SubSeq(lg, 1, Len(lg) - 1),
                [family |-> "EVM", op |-> op, pc |-> Last(lg).pc, gas |-> gas,
                 gasCost |-> cost,
                 memory |-> Last(lg).memory, memOffset |-> Last(lg).memOffset,
                 memSize |-> Last(lg).memSize, stack |-> Last(lg).stack,
                 storage |-> storage, depth |-> d, err |-> err])

\* CaptureState panicking on a record that is no `call` whether or not the limit is
\* reached
CaptureStatePanicsAtLimit(lg) == ~Interrupted /\ ~TraceOrderOk(lg)

\* CaptureState reaches its panic("trace order is corrupted")
CaptureStatePanics(lg) == ~Interrupted /\ ~Limited(lg) /\ ~TraceOrderOk(lg)

\* CaptureGasState reads l.logs[len(l.logs)-1] of an empty log: the index is out of
\* range, a runtime error
CaptureGasStateOutOfRange(lg) == ~Interrupted /\ Len(lg) = 0

\* CaptureGasState reaches its panic("trace order is corrupted")
CaptureGasStatePanics(lg) == ~Interrupted /\ Len(lg) > 0 /\ ~TraceOrderOk(lg)

\* m with the entries of n that m does not have
MergeKeep(m, n) == [k \in DOMAIN m \cup DOMAIN n |-> IF k \in DOMAIN m THEN m[k] ELSE n[k]]

\* m overridden by the entries of n
Merge(m, n) == [k \in DOMAIN m \cup DOMAIN n |-> IF k \in DOMAIN n THEN n[k] ELSE m[k]]

\* env.StateDB.GetState(addr, key): the zero hash for a slot that was never set
GetState(addr, key) ==
    IF <<addr, key>> \in DOMAIN world.storage THEN world.storage[<<addr, key>>] ELSE 0

\* CaptureState enters one of its two storage branches; stackData[stackLen-1] is the
\* last element of stack
TracksStorage(lgr, op, stack) ==
    /\ ~lgr.DisableStorage
    /\ \/ op = "SLOAD" /\ Len(stack) >= 1
       \/ op = "SSTORE" /\ Len(stack) >= 2

\* l.storage once CaptureState has looked at the opcode
StorageAfter(lgr, addr, op, stack) ==
    IF lgr.DisableStorage \/ op \notin {"SLOAD", "SSTORE"} THEN lgr.storage
    ELSE LET s0 == IF addr \in DOMAIN lgr.storage THEN lgr.storage
                   ELSE Put(lgr.storage, addr, EmptyMap)
             address == stack[Len(stack)]
         IN  IF op = "SLOAD" /\ Len(stack) >= 1
             THEN Put(s0, addr, Put(s0[addr], address, GetState(addr, address)))
             ELSE IF op = "SSTORE" /\ Len(stack) >= 2
             THEN Put(s0, addr, Put(s0[addr], address, stack[Len(stack) - 1]))
             ELSE s0

\* the storage delta CaptureState puts in its record: a copy of the contract's map
StorageDelta(lgr, addr, op, stack) ==
    IF TracksStorage(lgr, op, stack) THEN StorageAfter(lgr, addr, op, stack)[addr]
    ELSE EmptyMap

\* the logger fields after CaptureState: cancelled, or left alone at the limit, or
\* with the storage of the opcode tracked
CaptureStateLogger(lgr, lg, addr, op, stack) ==
    IF lgr.interrupt > 0 THEN Cancel(lgr)
    ELSE IF Limited(lg) THEN lgr
    ELSE [lgr EXCEPT !.storage = StorageAfter(lgr, addr, op, stack)]

\* CaptureStart
CaptureStart(lgr) == [lgr EXCEPT !.env = TRUE]

\* Reset: the logger apart from logs, which the caller truncates (logs[:0])
Reset(lgr) == [lgr EXCEPT !.storage = EmptyMap, !.output = <<>>, !.err = "nil"]

\* CaptureGlobalVariable with an opcode that is not nil
CaptureGlobalVariable(lgr, pc, index, value) ==
    [lgr EXCEPT !.globals = Append(@, [Pc |-> pc, Index |-> index, Value |-> value])]

\* CaptureGlobalMemoryState: entries of globalMemory override the ones held
CaptureGlobalMemoryState(lgr, globalMemory) ==
    [lgr EXCEPT !.globalMemory = Merge(@, globalMemory)]

\* CaptureWasmFunctionCall
CaptureWasmFunctionCall(lgr, fnIndex) ==
    [lgr EXCEPT !.functionCalls = Append(@, [FnIndex |-> fnIndex])]

\* CaptureEnd
CaptureEnd(lgr, output, err) == [lgr EXCEPT !.output = output, !.err = err]

\* Stop
Stop(lgr, err) == [lgr EXCEPT !.reason = err, !.interrupt = 1]

\* the sixteen hexadecimal digits, lower case
HexDigits == <<"0", "1", "2", "3", "4", "5", "6", "7", "8", "9",
               "a", "b", "c", "d", "e", "f">>

\* the characters of fmt.Sprintf("%x", v): two digits per byte
RECURSIVE Hex(_)
Hex(v) ==
    IF v = <<>> THEN <<>>
    ELSE <<HexDigits[(v[1] \div 16) + 1], HexDigits[(v[1] % 16) + 1]>> \o Hex(Tail(v))

\* hexutil.Encode
Encode(v) == <<"0", "x">> \o Hex(v)

\* strings.TrimPrefix
TrimPrefix(str, prefix) ==
    IF Len(str) >= Len(prefix) /\ SubSeq(str, 1, Len(prefix)) = prefix
    THEN SubSeq(str, Len(prefix) + 1, Len(str))
    ELSE str

\* GetResult returning a result although the tracer was stopped
GetResultIgnoreStop(lgr, lg) ==
    [result |-> <<[failed |-> lgr.err # "nil", structLogs |-> lg]>>, err |-> "nil"]

\* GetResult: (nil, reason) for a stopped tracer, the formatted execution otherwise;
\* result is <<>> for nil and holds the one formatted execution otherwise
GetResult(lgr, lg) ==
    IF lgr.reason # "nil" THEN [result |-> <<>>, err |-> lgr.reason]
    ELSE LET failed == lgr.err # "nil"
             gm == lgr.globalMemory
         IN  [result |-> <<
                 [failed |-> failed,
                  globalMemory |->
                      [k \in DOMAIN gm |-> TrimPrefix(Encode(gm[k]), <<"0", "x">>)],
                  returnValue |->
                      IF failed /\ lgr.err # "ErrExecutionReverted" THEN <<>>
                      ELSE Hex(lgr.output),
                  structLogs |-> lg,
                  globals |-> lgr.globals,
                  functionCalls |-> lgr.functionCalls]>>,
              err |-> "nil"]

---------------------------------------------------------------------------
(* Memory, and the interpreter as its MemoryInterceptor *)

\* the widths of int32/uint32 and of uint64, scaled down
Bits32 == 8
Bits64 == 16

\* uint32(x) of a uint64
Uint32(x) == x % (2 ^ Bits32)

\* the engine's TraceMemoryChange(offset, size, value): the engine is handed the
\* change and applies it to its linear memory; a span outside the memory is an
\* error, which writeMemory ignores
TraceMemoryChange(w, offset, size, value) ==
    [w EXCEPT
        !.changes = Append(@, [Offset |-> offset, Size |-> size, Value |-> value]),
        !.memory = IF offset + size > Len(@) \/ Len(value) # size THEN @
                   ELSE [i \in 1..Len(@) |->
                            IF i > offset /\ i <= offset + size THEN value[i - offset]
                            ELSE @[i]]]

\* WASMInterpreter.writeMemory
writeMemory(w, offset, size, value) ==
    TraceMemoryChange(w, Uint32(offset), Uint32(size), value)

\* whether data[offset : offset+size] of readMemory is within the engine's memory; if
\* not the slice expression is a runtime error
readMemoryOk(w, offset, size) == offset + size <= Len(w.memory)

\* WASMInterpreter.readMemory: MemoryData()[offset : offset+size]
readMemory(w, offset, size) == SubSeq(w.memory, offset + 1, offset + size)

\* WASMInterpreter.memorySize
memorySize(w) == Len(w.memory)

\* newMemoryFromSlice; memoryInterceptor is the interpreter or nil
newMemoryFromSlice(store, memoryInterceptor) ==
    [store |-> store, memoryInterceptor |-> memoryInterceptor]

\* the Memory that Scope() puts in the scope: newMemoryFromSlice([]byte{}, in)
ScopeMemory == newMemoryFromSlice(<<>>, TRUE)

\* Memory.Set on a Memory with an interceptor
Set(m, w, offset, size, value) ==
    IF m.memoryInterceptor THEN writeMemory(w, offset, size, value) ELSE w

\* Memory.GetCopy
GetCopy(m, w, offset, size) ==
    IF size = 0 THEN <<>>
    ELSE IF m.memoryInterceptor THEN readMemory(w, offset, size)
    ELSE IF Len(m.store) > offset THEN SubSeq(m.store, offset + 1, offset + size)
    ELSE <<>>

\* Memory.GetPtr: the bytes, and whether the commit handler it returns writes them to
\* the interceptor
GetPtr(m, offset, size) ==
    IF size = 0 THEN [res |-> <<>>, commit |-> FALSE]
    ELSE IF Len(m.store) > offset
    THEN [res |-> SubSeq(m.store, offset + 1, offset + size),
          commit |-> m.memoryInterceptor]
    ELSE [res |-> <<>>, commit |-> FALSE]

\* Memory.Len
MemoryLen(m) == Len(m.store)

---------------------------------------------------------------------------
(* WASMInterpreter: helpers *)

Top == frames[Len(frames)]

\* Scope(): the scope at index depth-1 of the queue
ScopeOk(q, d) == d >= 1 /\ d - 1 < Len(q)

\* Scope() handing out the scope of the outermost Run
ScopeFirst(q, d) == q[1]

Scope(q, d) == q[d]

\* Run injecting on every call, whatever the input
deployCodeAlways(code, input) == inject(code)

\* contract.Code once Run is past its deployment check: the injector's output if the
\* input is empty
deployCode(code, input) == IF input = "empty" THEN inject(code) ELSE code

\* the frame of a Run that pushed its scope and is about to call ComputeResult
NewFrame(gas, roDefer, d0, q0, roIn, id) ==
    [id |-> id, roIn |-> roIn, pc |-> "run", ip |-> 0, res |-> "Ok", err |-> "nil",
     depth0 |-> d0, qlen0 |-> q0, gas0 |-> gas, charges |-> <<>>,
     roDefer |-> roDefer, callLen |-> 0,
     input |-> "none", codeIn |-> <<>>, codeOut |-> <<>>,
     gasFail |-> FALSE, failAmount |-> 0, failGas |-> 0, evmFail |-> FALSE,
     evOp |-> "none", evGas |-> 0, evCost |-> 0, retData |-> "nil",
     evErr |-> "nil", evData |-> "nil", evDynErr |-> FALSE, badArity |-> FALSE,
     evKey |-> 0, evVal |-> 0, evRead |-> 0]

NoRun ==
    [input |-> "none", codeIn |-> <<>>, codeOut |-> <<>>,
     roIn |-> FALSE, roOut |-> FALSE, path |-> "none", depthIn |-> 0, qlenIn |-> 0, depthOut |-> 0, qlenOut |-> 0,
     data |-> "nil", err |-> "nil", gas0 |-> 0, charges |-> <<>>, gasLeft |-> 0,
     gasFail |-> FALSE, failGas |-> 0, evmFail |-> FALSE,
     res |-> "none", engErr |-> "nil", evOp |-> "none", evErr |-> "nil",
     evData |-> "nil", badArity |-> FALSE, loaded |-> FALSE, id |-> 0]

\* MapResult with the out-of-gas code taken for a revert
MapResultRevert(res, err) ==
    IF res \in {"OutOfGas", "ExecutionReverted", "Unknown"} THEN "ErrExecutionReverted"
    ELSE IF res = "StopToken" THEN "errStopToken"
    ELSE err

\* MapResult that leaves the Unknown code unmapped
MapResultNoUnknown(res, err) ==
    IF res = "OutOfGas" THEN "ErrOutOfGas"
    ELSE IF res = "ExecutionReverted" THEN "ErrExecutionReverted"
    ELSE IF res = "StopToken" THEN "errStopToken"
    ELSE err

\* Run, wasm.go:255-262: the engine's return code decides the error
MapResult(res, err) ==
    IF res = "OutOfGas" THEN "ErrOutOfGas"
    ELSE IF res \in {"ExecutionReverted", "Unknown"} THEN "ErrExecutionReverted"
    ELSE IF res = "StopToken" THEN "errStopToken"
    ELSE err

\* ClearStopToken that lets the stop token through
ClearStopTokenKeep(err) == err

\* Run, wasm.go:341-343, and execEvmOp, wasm.go:386-389
ClearStopToken(err) == IF err = "errStopToken" THEN "nil" ELSE err

\* PopScope that leaves the queue as it is
PopScopeKeep(q, d) == q

\* the deferred truncation of Run: in.stateQueue[0 : in.evm.depth-1]
PopScope(q, d) == SubSeq(q, 1, d - 1)

\* DepthAfterRun without the decrement
DepthAfterRunKeep(d) == d

\* the deferred in.evm.depth-- of Run
DepthAfterRun(d) == d - 1

\* the deferred reset of readOnly, registered only when Run set the flag
ReadOnlyAfter(ro, roDefer) == IF roDefer THEN FALSE ELSE ro

\* a halted engine: ComputeResult returned (res, err), or a recovered panic gave err
Halt(f, res, err) == [f EXCEPT !.pc = "halted", !.res = res, !.err = err]

\* the return of a Run to the host call that invoked it (evm.Call inside op.execute)
GiveResult(fr, data) ==
    IF fr = <<>> THEN fr ELSE [fr EXCEPT ![Len(fr)].retData = data]

\* what lastRun records of the Run of frame f that leaves with (data, err)
Returned(path, f, d, q, data, err, gasLeft) ==
    [input |-> f.input, codeIn |-> f.codeIn, codeOut |-> f.codeOut,
     roIn |-> f.roIn, roOut |-> ReadOnlyAfter(readOnly, f.roDefer),
     path |-> path, depthIn |-> f.depth0, qlenIn |-> f.qlen0,
     depthOut |-> d, qlenOut |-> Len(q), data |-> data, err |-> err,
     gas0 |-> f.gas0, charges |-> f.charges, gasLeft |-> gasLeft,
     gasFail |-> f.gasFail, failGas |-> f.failGas, evmFail |-> f.evmFail,
     res |-> f.res, engErr |-> f.err, evOp |-> f.evOp, evErr |-> f.evErr,
     evData |-> f.evData, badArity |-> f.badArity, loaded |-> TRUE, id |-> f.id]

---------------------------------------------------------------------------
(* WASMInterpreter.Run, from its entry to the call of ComputeResult *)

\* Run swallowing the error of the injector
injectErrDropped(injectOk) == "nil"

\* the error Run returns for the outcome of the injector: its error, wrapped
injectErr(injectOk) == IF injectOk THEN "nil" ELSE "ErrInject"

\* fr and sq are the call stack and the scope queue at the time of the call
RunEnter(fr, sq, code, input, injectOk, gas, ro) ==
    LET roSet == ro /\ ~readOnly
        early(path, roAfter, err) ==
            /\ depth' = DepthAfterRun(depth + 1)
            /\ readOnly' = roAfter
            /\ stateQueue' = sq
            /\ frames' = GiveResult(fr, "nil")
            /\ panicking' = "none"
            /\ lastRun' = [NoRun EXCEPT !.path = path, !.depthIn = depth,
                              !.input = input, !.codeIn = code, !.codeOut = code,
                              !.roIn = readOnly, !.roOut = roAfter,
                              !.qlenIn = Len(sq), !.depthOut = DepthAfterRun(depth + 1),
                              !.qlenOut = Len(sq), !.err = err,
                              !.gas0 = gas, !.gasLeft = gas, !.id = nRuns + 1]
    IN  /\ returnData' = "nil"
        /\ nRuns' = nRuns + 1
        /\ IF Len(code) = 0 THEN
              early("nocode", ReadOnlyAfter(IF roSet THEN TRUE ELSE readOnly, roSet), "nil")
           ELSE IF input = "empty" /\ ~injectOk THEN
              early("inject", ReadOnlyAfter(ro, roSet), injectErr(injectOk))
           ELSE IF Len(sq) # (depth + 1) - 1 THEN
              \* panic("state queue len and evm depth mismatch, this is not possible")
              /\ depth' = DepthAfterRun(depth + 1)
              /\ readOnly' = ReadOnlyAfter(ro, roSet)
              /\ stateQueue' = sq
              /\ frames' = fr
              /\ panicking' = "string"
              /\ lastRun' = [NoRun EXCEPT !.path = "panic", !.depthIn = depth,
                                !.input = input, !.codeIn = code,
                                !.codeOut = deployCode(code, input),
                                !.roIn = readOnly, !.roOut = ReadOnlyAfter(ro, roSet),
                                !.qlenIn = Len(sq), !.depthOut = DepthAfterRun(depth + 1),
                                !.qlenOut = Len(sq), !.gas0 = gas, !.gasLeft = gas,
                                !.loaded = TRUE, !.id = nRuns + 1]
           ELSE
              /\ depth' = depth + 1
              /\ readOnly' = ro
              /\ stateQueue' = Append(sq, [Gas |-> gas, id |-> nRuns + 1,
                                           Code |-> deployCode(code, input)])
              /\ frames' = Append(fr, [NewFrame(gas, roSet, depth, Len(sq), readOnly,
                                                nRuns + 1)
                                          EXCEPT !.input = input, !.codeIn = code,
                                                 !.codeOut = deployCode(code, input)])
              /\ panicking' = "none"
              /\ lastRun' = lastRun

\* evm.Call of a transaction on a fresh machine (newWasmMachine): the outermost Run
RunTop(code, input, injectOk, gas, ro) ==
    /\ frames = <<>>
    /\ panicking = "none"
    /\ nRuns = 0
    /\ RunEnter(frames, stateQueue, code, input, injectOk, gas, ro)
    /\ UNCHANGED <<debug, limit, logger, world, logs, nSteps>>

---------------------------------------------------------------------------
(* The engine: ComputeResult stepping through the guest code *)

Running == frames # <<>> /\ panicking = "none"

\* registerLogsCallback: the engine reports an instruction that is no host call
WasmStep(op) ==
    /\ Running /\ Top.pc = "run"
    /\ nSteps < MaxSteps
    /\ ScopeOk(stateQueue, depth)
    /\ logs' = CaptureWasmState(logs, Top.ip, op, NilMemory, <<>>, Scope(stateQueue, depth).Gas, depth)
    /\ frames' = [frames EXCEPT ![Len(frames)].ip = @ + 1]
    /\ nSteps' = nSteps + 1
    /\ UNCHANGED <<debug, limit, logger, world, depth, stateQueue, readOnly, returnData, lastRun,
                   panicking, nRuns>>

\* registerLogsCallback: the engine reports the `call` of an imported host function,
\* which it is about to invoke
WasmCall ==
    /\ Running /\ Top.pc = "run"
    /\ nSteps < MaxSteps
    /\ ScopeOk(stateQueue, depth)
    /\ logs' = CaptureWasmState(logs, Top.ip, "call", NilMemory, <<>>, Scope(stateQueue, depth).Gas, depth)
    /\ frames' = [frames EXCEPT ![Len(frames)].ip = @ + 1,
                                ![Len(frames)].pc = "host",
                                ![Len(frames)].callLen = Len(logs) + 1]
    /\ nSteps' = nSteps + 1
    /\ UNCHANGED <<debug, limit, logger, world, depth, stateQueue, readOnly, returnData, lastRun,
                   panicking, nRuns>>

\* outcomes of a guest `main` that runs to its end: success, a non-zero exit code
\* (part_000:165), a trap, a revert reported by the engine
EngineExits ==
    {<<"Ok", "nil">>, <<"Ok", "ExitCode">>, <<"Unknown", "nil">>,
     <<"ExecutionReverted", "nil">>}

\* ComputeResult returns because the guest code ended
EngineDone(res, err) ==
    /\ Running /\ Top.pc = "run"
    /\ frames' = [frames EXCEPT ![Len(frames)] = Halt(@, res, err)]
    /\ UNCHANGED <<debug, limit, logger, world, depth, stateQueue, readOnly, returnData, logs, lastRun,
                   panicking, nRuns, nSteps>>

---------------------------------------------------------------------------
(* Leaving Run *)

\* a panic leaves the Run of the top frame: its deferred calls run, its frame is gone
EscapeRun(fr, sq, kind) ==
    LET f == fr[Len(fr)]
        q == PopScope(sq, depth)
        d == DepthAfterRun(depth)
    IN  /\ stateQueue' = q
        /\ depth' = d
        /\ readOnly' = ReadOnlyAfter(readOnly, f.roDefer)
        /\ frames' = SubSeq(fr, 1, Len(fr) - 1)
        /\ panicking' = kind
        /\ lastRun' = Returned("panic", f, d, q, "nil", "nil", Scope(sq, depth).Gas)

\* HostPanic without the recover: every panic leaves Run
HostPanicNoRecover(fr, sq, kind, err) == EscapeRun(fr, sq, "error")

\* HostPanic that reports a recovered panic as the Unknown code
HostPanicUnknown(fr, sq, kind, err) ==
    IF kind = "error" THEN
        /\ frames' = [fr EXCEPT ![Len(fr)] = Halt(@, "Unknown", err)]
        /\ stateQueue' = sq
        /\ panicking' = "none"
        /\ UNCHANGED <<depth, readOnly, lastRun>>
    ELSE EscapeRun(fr, sq, "error")

\* a panic raised inside a host callback reaches the recover of Run (wasm.go:243-247):
\* an error value becomes the result of ComputeResult; any other value fails the
\* type assertion err2.(error), and that runtime error leaves Run
HostPanic(fr, sq, kind, err) ==
    IF kind = "error" THEN
        /\ frames' = [fr EXCEPT ![Len(fr)] = Halt(@, "Ok", err)]
        /\ stateQueue' = sq
        /\ panicking' = "none"
        /\ UNCHANGED <<depth, readOnly, lastRun>>
    ELSE EscapeRun(fr, sq, "error")

\* what DumpTrace reports of a guest with one data segment and one function
HelloDump ==
    [GlobalMemory |-> Put(EmptyMap, 0, <<1, 171>>), GlobalVariables |-> <<>>,
     FnMetas |-> <<0>>]

\* the dump Run replays in the runs of Spec
EngineDumps == {HelloDump}

\* dumps with and without global memory, global-variable writes and functions
AnyEngineDumps ==
    {HelloDump,
     [GlobalMemory |-> EmptyMap, GlobalVariables |-> <<>>, FnMetas |-> <<>>],
     [GlobalMemory |-> Put(EmptyMap, 0, <<3>>),
      GlobalVariables |-> <<[Index |-> 0, Value |-> 5]>>, FnMetas |-> <<0>>]}

\* Run, wasm.go:308-318: the global memory of the dump, when there is one, goes to
\* CaptureGlobalMemoryState
ReplayGlobalMemory(lgr, dump) ==
    IF dump.GlobalMemory = EmptyMap THEN lgr
    ELSE [CaptureGlobalMemoryState(lgr, dump.GlobalMemory)
              EXCEPT !.dumps = Append(@, dump.GlobalMemory)]

\* Run, wasm.go:322-324: one CaptureWasmFunctionCall per function of the dump
RECURSIVE ReplayFnMetas(_, _)
ReplayFnMetas(lgr, metas) ==
    IF metas = <<>> THEN lgr
    ELSE ReplayFnMetas(CaptureWasmFunctionCall(lgr, Head(metas)), Tail(metas))

\* Run, wasm.go:297-326, for a dump without global-variable writes
Replay(lgr, dump) == ReplayFnMetas(ReplayGlobalMemory(lgr, dump), dump.FnMetas)

\* Run, from the return of ComputeResult to its own return, deferred calls included.
\* In debug mode the dump of the engine is replayed into the logger first; a
\* global-variable write is handed to CaptureGlobalVariable with a nil opcode, whose
\* op.Pc() is a nil dereference: that runtime error leaves Run
RunReturn(dump) ==
    /\ Running /\ Top.pc = "halted"
    /\ IF debug /\ dump.GlobalVariables # <<>> THEN
          /\ logger' = ReplayGlobalMemory(logger, dump)
          /\ EscapeRun(frames, stateQueue, "error")
       ELSE
          LET f == Top
              err == ClearStopToken(MapResult(f.res, f.err))
              q == PopScope(stateQueue, depth)
              d == DepthAfterRun(depth)
          IN  /\ logger' = IF debug THEN Replay(logger, dump) ELSE logger
              /\ stateQueue' = q
              /\ depth' = d
              /\ readOnly' = ReadOnlyAfter(readOnly, f.roDefer)
              /\ frames' = GiveResult(SubSeq(frames, 1, Len(frames) - 1), returnData)
              /\ lastRun' = Returned("engine", f, d, q, returnData, err,
                                     Scope(stateQueue, depth).Gas)
              /\ panicking' = panicking
    /\ UNCHANGED <<debug, limit, world, returnData, logs, nRuns, nSteps>>

---------------------------------------------------------------------------
(* env.gas *)

\* gasCheck that answers Ok without paying
gasCheckNoPay(gas, gasSpend, dbg) ==
    IF dbg /\ gas < gasSpend THEN [ret |-> "OutOfGas", panic |-> "nil", gas |-> gas]
    ELSE IF ~UseGasOk(gas, gasSpend) THEN
        [ret |-> "none", panic |-> "ErrOutOfGas", gas |-> gas]
    ELSE [ret |-> "Ok", panic |-> "nil", gas |-> gas]

\* registerGasCheckFunction: what the host function answers and the gas it leaves
gasCheck(gas, gasSpend, dbg) ==
    IF dbg /\ gas < gasSpend THEN [ret |-> "OutOfGas", panic |-> "nil", gas |-> gas]
    ELSE IF ~UseGasOk(gas, gasSpend) THEN
        [ret |-> "none", panic |-> "ErrOutOfGas", gas |-> gas]
    ELSE [ret |-> "Ok", panic |-> "nil", gas |-> UseGas(gas, gasSpend)]

GasHostCall(amount) ==
    /\ Running /\ Top.pc = "host"
    /\ UNCHANGED <<debug, limit, logger, world, returnData, nRuns, nSteps>>
    /\ IF ~ScopeOk(stateQueue, depth) THEN
          \* panic("context queue is empty")
          /\ logs' = logs
          /\ HostPanic(frames, stateQueue, "string", "none")
       ELSE
          LET gas == Scope(stateQueue, depth).Gas
              r == gasCheck(gas, amount, debug)
              sq == [stateQueue EXCEPT ![depth].Gas = r.gas]
              failed == r.ret # "Ok"
              f1 == [Top EXCEPT
                        !.charges = IF failed THEN @ ELSE Append(@, amount),
                        !.gasFail = failed,
                        !.failAmount = IF failed THEN amount ELSE @,
                        !.failGas = IF failed THEN gas ELSE @]
              fr(f) == [frames EXCEPT ![Len(frames)] = f]
          IN  IF debug /\ CaptureGasStateOutOfRange(logs) THEN
                 \* CaptureGasState: index out of range
                 /\ logs' = logs
                 /\ HostPanic(frames, stateQueue, "error", "RuntimeError")
              ELSE IF debug /\ CaptureGasStatePanics(logs) THEN
                 \* CaptureGasState: panic("trace order is corrupted")
                 /\ logs' = logs
                 /\ HostPanic(frames, stateQueue, "string", "none")
              ELSE
                 /\ logs' = IF debug
                            THEN CaptureGasState(logs, amount, gas, depth,
                                     IF gas < amount THEN "ErrOutOfGas" ELSE "nil")
                            ELSE logs
                 /\ IF r.ret = "Ok" THEN
                       /\ frames' = fr([f1 EXCEPT !.pc = "run"])
                       /\ stateQueue' = sq
                       /\ UNCHANGED <<depth, readOnly, panicking, lastRun>>
                    ELSE IF r.ret = "OutOfGas" THEN
                       \* the engine halts on the code the host function returns
                       /\ frames' = fr(Halt(f1, "OutOfGas", "nil"))
                       /\ stateQueue' = sq
                       /\ UNCHANGED <<depth, readOnly, panicking, lastRun>>
                    ELSE HostPanic(fr(f1), sq, "error", r.panic)

---------------------------------------------------------------------------
(* EVM opcode host functions *)

\* execEvmOpGas that charges the constant gas only
execEvmOpGasConstant(gas, op, dyn, overflow, dynErr) ==
    LET cost == constantGas(op)
    IN  IF ~UseGasOk(gas, cost) THEN
            [err |-> "ErrOutOfGas", gas |-> gas, cost |-> cost]
        ELSE IF ~hasDynamicGas(op) THEN
            [err |-> "nil", gas |-> UseGas(gas, cost), cost |-> cost]
        ELSE IF overflow THEN
            [err |-> "ErrGasUintOverflow", gas |-> UseGas(gas, cost), cost |-> cost]
        ELSE IF dynErr \/ ~UseGasOk(UseGas(gas, cost), dyn) THEN
            [err |-> "ErrOutOfGas", gas |-> UseGas(gas, cost), cost |-> cost + dyn]
        ELSE [err |-> "nil", gas |-> UseGas(gas, cost), cost |-> cost + dyn]

\* execEvmOp, wasm.go:384-414: the constant and the dynamic gas charge.
\* dyn is what op.dynamicGas answers, dynErr whether it fails, overflow whether the
\* memory size of the opcode overflows
execEvmOpGas(gas, op, dyn, overflow, dynErr) ==
    LET cost == constantGas(op)
    IN  IF ~UseGasOk(gas, cost) THEN
            [err |-> "ErrOutOfGas", gas |-> gas, cost |-> cost]
        ELSE IF ~hasDynamicGas(op) THEN
            [err |-> "nil", gas |-> UseGas(gas, cost), cost |-> cost]
        ELSE IF overflow THEN
            [err |-> "ErrGasUintOverflow", gas |-> UseGas(gas, cost), cost |-> cost]
        ELSE IF dynErr \/ ~UseGasOk(UseGas(gas, cost), dyn) THEN
            [err |-> "ErrOutOfGas", gas |-> UseGas(gas, cost), cost |-> cost + dyn]
        ELSE [err |-> "nil", gas |-> UseGas(UseGas(gas, cost), dyn), cost |-> cost + dyn]

\* the bytes the opcode reads from guest memory when it executes (none but for
\* RETURN and REVERT)
executeRead(op, data) == IF op \in {"RETURN", "REVERT"} THEN data ELSE "nil"

\* whether execEvmOp got as far as op.dynamicGas and that function failed (wasm.go:409-411)
dynamicGasFailed(gas, op, overflow, dynErr) ==
    /\ UseGasOk(gas, constantGas(op))
    /\ hasDynamicGas(op)
    /\ ~overflow
    /\ dynErr

\* executeRet that hands no bytes back
executeRetNil(op, data) == "nil"

\* the bytes op.execute returns: RETURN and REVERT give the bytes read from memory
executeRet(op, data) == IF op \in {"RETURN", "REVERT"} THEN data ELSE "nil"

\* registerNativeFunction, processOpcode and execEvmOp for an opcode that calls no
\* contract, and for any opcode whose gas charge fails
EvmHostCall(op, dyn, overflow, dynErr, data) ==
    /\ Running /\ Top.pc = "host"
    /\ UNCHANGED <<debug, limit, logger, world, nRuns, nSteps>>
    /\ IF ~ScopeOk(stateQueue, depth) THEN
          /\ UNCHANGED <<logs, returnData>>
          /\ HostPanic(frames, stateQueue, "string", "none")
       ELSE
          LET gas == Scope(stateQueue, depth).Gas
              r == execEvmOpGas(gas, op, dyn, overflow, dynErr)
              err == IF r.err # "nil" THEN r.err ELSE executeErr(op)
              sq == [stateQueue EXCEPT ![depth].Gas = r.gas]
              f1 == [Top EXCEPT
                        !.charges = IF r.err = "nil" THEN Append(@, constantGas(op) +
                                        (IF hasDynamicGas(op) THEN dyn ELSE 0)) ELSE @,
                        !.evmFail = @ \/ r.err # "nil",
                        !.evOp = op, !.evErr = err,
                        !.evData = IF r.err = "nil" THEN executeRead(op, data) ELSE "nil",
                        !.evDynErr = dynamicGasFailed(gas, op, overflow, dynErr)]
              fr(f) == [frames EXCEPT ![Len(frames)] = f]
          IN  /\ op \in PlainOps \/ r.err # "nil"
              /\ returnData' = IF r.err # "nil" THEN returnData ELSE executeRet(op, data)
              /\ IF debug /\ CaptureStatePanics(logs) THEN
                    \* CaptureState: panic("trace order is corrupted")
                    /\ logs' = logs
                    /\ HostPanic(fr(f1), sq, "string", "none")
                 ELSE
                    /\ logs' = IF debug
                               THEN CaptureState(logs, op, EmptyMap, gas, r.cost, depth,
                                                 ClearStopToken(err))
                               ELSE logs
                    /\ IF err = "nil" THEN
                          /\ frames' = fr([f1 EXCEPT !.pc = "run"])
                          /\ stateQueue' = sq
                          /\ UNCHANGED <<depth, readOnly, panicking, lastRun>>
                       ELSE IF err = "errStopToken" THEN
                          /\ frames' = fr(Halt(f1, "StopToken", "nil"))
                          /\ stateQueue' = sq
                          /\ UNCHANGED <<depth, readOnly, panicking, lastRun>>
                       ELSE HostPanic(fr(f1), sq, "error", err)

\* a call opcode whose gas charge succeeded: op.execute enters evm.Call, which runs
\* the callee through Run on this interpreter (readOnly = false for CALL)
CallOpBegin(op, dyn, code, input, injectOk, calleeGas) ==
    /\ Running /\ Top.pc = "host"
    /\ op \in CallOps
    /\ nRuns < MaxRuns
    /\ ScopeOk(stateQueue, depth)
    /\ LET gas == Scope(stateQueue, depth).Gas
           r == execEvmOpGas(gas, op, dyn, FALSE, FALSE)
           sq == [stateQueue EXCEPT ![depth].Gas = r.gas]
           f1 == [Top EXCEPT !.pc = "incall", !.charges = Append(@, constantGas(op) + dyn),
                             !.evOp = op, !.evGas = gas, !.evCost = r.cost]
       IN  /\ r.err = "nil"
           /\ RunEnter([frames EXCEPT ![Len(frames)] = f1], sq, code, input, injectOk,
                       calleeGas, FALSE)
    /\ UNCHANGED <<debug, limit, logger, world, logs, nSteps>>

\* the callee returned: op.execute returns its bytes, execEvmOp stores them and its
\* deferred CaptureState records the opcode
CallOpEnd ==
    /\ Running /\ Top.pc = "incall"
    /\ returnData' = Top.retData
    /\ UNCHANGED <<debug, limit, logger, world, nRuns, nSteps>>
    /\ IF debug /\ CaptureStatePanics(logs) THEN
          \* CaptureState: panic("trace order is corrupted")
          /\ logs' = logs
          /\ HostPanic(frames, stateQueue, "string", "none")
       ELSE
          /\ logs' = IF debug
                     THEN CaptureState(logs, Top.evOp, EmptyMap, Top.evGas, Top.evCost, depth, "nil")
                     ELSE logs
          /\ frames' = [frames EXCEPT ![Len(frames)].pc = "run"]
          /\ UNCHANGED <<depth, stateQueue, readOnly, panicking, lastRun>>

\* a panic that left the callee's Run unwinds the host call of the caller: the
\* deferred CaptureState of execEvmOp runs, then the recover of the caller's Run
PanicUnwind ==
    /\ frames # <<>> /\ panicking # "none"
    /\ LET ok == ~CaptureStatePanics(logs)
           kind == IF debug /\ ~ok THEN "string" ELSE panicking
       IN  /\ logs' = IF debug /\ ok
                      THEN CaptureState(logs, Top.evOp, EmptyMap, Top.evGas, Top.evCost, depth, "nil")
                      ELSE logs
           /\ HostPanic(frames, stateQueue, kind, "RuntimeError")
    /\ UNCHANGED <<debug, limit, logger, world, returnData, nRuns, nSteps>>

---------------------------------------------------------------------------
(* _evm_sload and _evm_sstore *)

\* processOpcode: the arguments pushed in reverse, argument 0 on top, and the memory
\* offsets replaced by the words they point to (replaceMemOffsetWithValueOnStack).
\* _evm_sload(keyOffset, dest), _evm_sstore(keyOffset, valueOffset)
storageStack(op, key, val) == IF op = "SLOAD" THEN <<DestPtr, key>> ELSE <<val, key>>

\* opSload: the key on top of the stack is replaced by the value of its slot
opSload(addr, stack) == [stack EXCEPT ![Len(stack)] = GetState(addr, stack[Len(stack)])]

\* opSstore: pops the key and the value
opSstore(stack) == SubSeq(stack, 1, Len(stack) - 2)

\* opSstore: SetState(contract address, key, value)
SetState(w, addr, stack) ==
    [w EXCEPT !.storage = Put(@, <<addr, stack[Len(stack)]>>, stack[Len(stack) - 1])]

\* the error of op.execute: SSTORE in a static call
storageErr(op, ro) == IF op = "SSTORE" /\ ro THEN "ErrWriteProtection" ELSE "nil"

\* registerNativeFunction, processOpcode and execEvmOp for SLOAD and SSTORE; the
\* deferred CaptureState of execEvmOp sees the stack as op.execute left it
StorageHostCall(op, key, val, dyn, dynErr) ==
    /\ Running /\ Top.pc = "host"
    /\ UNCHANGED <<debug, limit, nRuns, nSteps>>
    /\ IF ~ScopeOk(stateQueue, depth) THEN
          /\ UNCHANGED <<logs, returnData, logger, world>>
          /\ HostPanic(frames, stateQueue, "string", "none")
       ELSE
          LET gas == Scope(stateQueue, depth).Gas
              addr == Scope(stateQueue, depth).id
              r == execEvmOpGas(gas, op, dyn, FALSE, dynErr)
              err == IF r.err # "nil" THEN r.err ELSE storageErr(op, readOnly)
              stack0 == storageStack(op, key, val)
              stack1 == IF err # "nil" THEN stack0
                        ELSE IF op = "SLOAD" THEN opSload(addr, stack0)
                        ELSE opSstore(stack0)
              sq == [stateQueue EXCEPT ![depth].Gas = r.gas]
              f1 == [Top EXCEPT
                        !.charges = IF r.err = "nil" THEN Append(@, constantGas(op) + dyn)
                                    ELSE @,
                        !.evmFail = @ \/ r.err # "nil",
                        !.evOp = op, !.evErr = err, !.evData = "nil",
                        !.evDynErr = dynamicGasFailed(gas, op, FALSE, dynErr),
                        !.evKey = key, !.evVal = val, !.evRead = GetState(addr, key)]
              fr(f) == [frames EXCEPT ![Len(frames)] = f]
          IN  /\ returnData' = IF r.err # "nil" THEN returnData ELSE "nil"
              /\ world' = IF err = "nil" /\ op = "SSTORE" THEN SetState(world, addr, stack0)
                          ELSE world
              /\ logger' = IF debug
                           THEN CaptureStateLogger(logger, logs, addr, op, stack1)
                           ELSE logger
              /\ IF debug /\ CaptureStatePanics(logs) THEN
                    \* CaptureState: panic("trace order is corrupted")
                    /\ logs' = logs
                    /\ HostPanic(fr(f1), sq, "string", "none")
                 ELSE
                    /\ logs' = IF debug
                               THEN CaptureState(logs, op,
                                                 StorageDelta(logger, addr, op, stack1),
                                                 gas, r.cost, depth, err)
                               ELSE logs
                    /\ IF err = "nil" THEN
                          /\ frames' = fr([f1 EXCEPT !.pc = "run"])
                          /\ stateQueue' = sq
                          /\ UNCHANGED <<depth, readOnly, panicking, lastRun>>
                       ELSE HostPanic(fr(f1), sq, "error", err)

---------------------------------------------------------------------------
(* The EVM opcode host functions: registerNativeFunction and processOpcode *)

\* a 256-bit stack item is held as its big-endian bytes without leading zeros, the
\* value of uint256.Int.Bytes()

\* uint256.NewInt(n)
RECURSIVE NewInt(_)
NewInt(n) == IF n = 0 THEN <<>> ELSE NewInt(n \div 256) \o <<n % 256>>

\* uint256.Int.SetBytes(b) for at most 32 bytes
RECURSIVE SetBytes(_)
SetBytes(b) == IF b = <<>> THEN <<>> ELSE IF b[1] = 0 THEN SetBytes(Tail(b)) ELSE b

AddressDestLen == 20
SizeDestLen == 4
Uint256DestLen == 32
Uint64DestLen == 8
HashDestLen == 32
BoolDestLen == 1

\* the opcodes registerNativeFunctions registers with copyLastStackItemToMemory, by the
\* length they are registered with
AddressOps == {"ADDRESS", "ORIGIN", "CALLER", "COINBASE", "CREATE", "CREATE2"}
HashOps == {"SHA3", "CALLDATALOAD", "EXTCODEHASH", "BLOCKHASH"}
Uint256Ops ==
    {"BALANCE", "CALLVALUE", "GASPRICE", "DIFFICULTY", "CHAINID", "SELFBALANCE",
     "BASEFEE", "SLOAD"}
SizeOps == {"CALLDATASIZE", "CODESIZE", "EXTCODESIZE", "RETURNDATASIZE"}
Uint64Ops == {"TIMESTAMP", "NUMBER", "GASLIMIT", "PC", "MSIZE", "GAS"}
BoolOps == {"CALL", "CALLCODE", "DELEGATECALL", "STATICCALL"}

\* the opcodes registered with a nil finalizer
NoFinalizerOps ==
    {"RETURN", "STOP", "CALLDATACOPY", "CODECOPY", "EXTCODECOPY", "RETURNDATACOPY",
     "SSTORE", "LOG0", "LOG1", "LOG2", "LOG3", "LOG4", "REVERT", "SELFDESTRUCT"}

\* the destLen of the finalizer an opcode is registered with; 0 for a nil finalizer
destLen(op) ==
    CASE op \in AddressOps -> AddressDestLen
      [] op \in HashOps -> HashDestLen
      [] op \in Uint256Ops -> Uint256DestLen
      [] op \in SizeOps -> SizeDestLen
      [] op \in Uint64Ops -> Uint64DestLen
      [] op \in BoolOps -> BoolDestLen
      [] OTHER -> 0

\* an input pre-processor: replaceMemOffsetWithValueOnStack(index, fieldType)
Pre(index, fieldType) == [index |-> index, fieldType |-> fieldType]

\* the input pre-processors an opcode is registered with, in order
inputPreprocessors(op) ==
    CASE op \in {"BALANCE", "EXTCODESIZE", "EXTCODECOPY", "EXTCODEHASH"} ->
             <<Pre(0, "Address")>>
      [] op \in {"CALLDATALOAD", "SLOAD", "CREATE", "CREATE2"} -> <<Pre(0, "Uint256")>>
      [] op = "SSTORE" -> <<Pre(0, "Uint256"), Pre(1, "Uint256")>>
      [] op = "LOG1" -> <<Pre(2, "Uint256")>>
      [] op = "LOG2" -> <<Pre(2, "Uint256"), Pre(3, "Uint256")>>
      [] op = "LOG3" -> <<Pre(2, "Uint256"), Pre(3, "Uint256"), Pre(4, "Uint256")>>
      [] op = "LOG4" ->
             <<Pre(2, "Uint256"), Pre(3, "Uint256"), Pre(4, "Uint256"),
               Pre(5, "Uint256")>>
      [] op \in {"CALL", "CALLCODE"} -> <<Pre(1, "Address"), Pre(2, "Uint256")>>
      [] op = "DELEGATECALL" -> <<Pre(1, "Uint256")>>
      [] op = "STATICCALL" -> <<Pre(1, "Address")>>
      [] OTHER -> <<>>

\* wasmFunctionTypes: the number of parameters of the host function of an opcode
wasmFunctionTypes(op) ==
    CASE op = "STOP" -> 0
      [] op \in {"ADDRESS", "ORIGIN", "CALLER", "CALLVALUE", "CALLDATASIZE", "CODESIZE",
                 "GASPRICE", "RETURNDATASIZE", "COINBASE", "TIMESTAMP", "NUMBER",
                 "DIFFICULTY", "GASLIMIT", "CHAINID", "SELFBALANCE", "BASEFEE", "PC",
                 "MSIZE", "GAS", "SELFDESTRUCT"} -> 1
      [] op \in {"BALANCE", "CALLDATALOAD", "EXTCODESIZE", "EXTCODEHASH", "BLOCKHASH",
                 "SLOAD", "SSTORE", "LOG0", "RETURN", "REVERT"} -> 2
      [] op \in {"SHA3", "CALLDATACOPY", "CODECOPY", "RETURNDATACOPY", "LOG1"} -> 3
      [] op \in {"EXTCODECOPY", "LOG2", "CREATE"} -> 4
      [] op \in {"LOG3", "CREATE2"} -> 5
      [] op = "LOG4" -> 6
      [] op \in {"DELEGATECALL", "STATICCALL"} -> 7
      [] op \in {"CALL", "CALLCODE"} -> 8

\* a conversion to uint64 that drops the sign
ToUint64Abs(p) == IF p < 0 THEN 0 - p ELSE p

\* uint64(paramValue) of an int32 or an int64: the sign is extended
ToUint64(p) == IF p < 0 THEN p + 2 ^ Bits64 ELSE p

\* registerNativeFunction: input[i] = uint64(params[i])
toInput(params) == [i \in 1..Len(params) |-> ToUint64(params[i])]

\* processOpcode pushing the arguments in their own order
pushInputForward(input) == [k \in 1..Len(input) |-> NewInt(input[k])]

\* processOpcode, wasm.go:483-487: the stack filled from the last argument to the
\* first; the top of the stack is its last element
pushInput(input) == [k \in 1..Len(input) |-> NewInt(input[Len(input) - k + 1])]

\* Stack.Back(n): the n-th item from the top
Back(stack, n) == stack[Len(stack) - n]

\* Stack.peek
peek(stack) == stack[Len(stack)]

\* the size of a field type
fieldLen(fieldType) == IF fieldType = "Address" THEN AddressDestLen ELSE Uint256DestLen

\* replaceMemOffsetWithValueOnStack(inputOffsetIndex, fieldType) applied to the input
\* and the stack: an error it returns, the runtime error of a read outside the guest
\* memory, or the stack with the item replaced
replaceMemOffsetWithValueOnStack(inputOffsetIndex, fieldType, input, stack, w) ==
    IF Len(input) < inputOffsetIndex + 1 \/ Len(stack) < inputOffsetIndex + 1
          \/ inputOffsetIndex < 0 \/ fieldType \notin {"Address", "Uint256"}
    THEN [err |-> "ErrPreprocessor", stack |-> stack]
    ELSE LET offset == input[inputOffsetIndex + 1]
         IN  IF ~readMemoryOk(w, offset, fieldLen(fieldType))
             THEN [err |-> "RuntimeError", stack |-> stack]
             ELSE [err |-> "nil",
                   stack |-> [stack EXCEPT ![Len(stack) - inputOffsetIndex] =
                       SetBytes(GetCopy(ScopeMemory, w, offset, fieldLen(fieldType)))]]

\* processOpcode, wasm.go:499-503: the pre-processors in order, up to the first that
\* fails
RECURSIVE preprocess(_, _, _, _)
preprocess(pps, input, stack, w) ==
    IF pps = <<>> THEN [err |-> "nil", stack |-> stack]
    ELSE LET r == replaceMemOffsetWithValueOnStack(Head(pps).index, Head(pps).fieldType,
                                                   input, stack, w)
         IN  IF r.err # "nil" THEN r ELSE preprocess(Tail(pps), input, r.stack, w)

\* n zero bytes
Zeros(n) == [i \in 1..n |-> 0]

\* copyLastStackItemToMemory writing the bytes at the front of the span
copyLastStackItemToMemoryFront(n, input, stack, w) ==
    IF Len(input) = 0 THEN [err |-> "ErrFinalizer", w |-> w]
    ELSE IF stack = <<>> \/ Len(peek(stack)) > n THEN [err |-> "RuntimeError", w |-> w]
    ELSE [err |-> "nil",
          w |-> Set(ScopeMemory, w, input[Len(input)], n,
                    peek(stack) \o Zeros(n - Len(peek(stack))))]

\* copyLastStackItemToMemory(destLen) applied to the input and the stack: the top of
\* the stack, left-padded to n bytes, is written at the offset that is the last
\* argument; a top longer than n bytes is a slice out of range, a runtime error
copyLastStackItemToMemory(n, input, stack, w) ==
    IF Len(input) = 0 THEN [err |-> "ErrFinalizer", w |-> w]
    ELSE IF stack = <<>> \/ Len(peek(stack)) > n THEN [err |-> "RuntimeError", w |-> w]
    ELSE [err |-> "nil",
          w |-> Set(ScopeMemory, w, input[Len(input)], n,
                    Zeros(n - Len(peek(stack))) \o peek(stack))]

\* the stack as op.execute leaves it: an opcode that yields a value pushes it or puts it
\* in the place of its operand; SSTORE and RETURN pop their two operands
execute(op, stack, result) ==
    CASE op \in {"ADDRESS", "CALLDATASIZE", "TIMESTAMP"} -> Append(stack, result)
      [] op = "BALANCE" -> [stack EXCEPT ![Len(stack)] = result]
      [] op \in {"SSTORE", "RETURN"} -> SubSeq(stack, 1, Len(stack) - 2)
      [] OTHER -> stack

\* processOpcode: the stack is filled, the pre-processors run, execEvmOp charges the
\* gas and executes the opcode, and the deferred function runs the finalizer however
\* processOpcode is left; an error of the finalizer is raised as a panic in place of
\* the error on the way
processOpcode(op, input, gas, dyn, dynErr, result, w) ==
    LET stack0 == pushInput(input)
        pre == preprocess(inputPreprocessors(op), input, stack0, w)
        r == execEvmOpGas(gas, op, dyn, FALSE, dynErr)
        err == IF pre.err # "nil" THEN pre.err
               ELSE IF r.err # "nil" THEN r.err
               ELSE executeErr(op)
        ran == pre.err = "nil" /\ r.err = "nil"
        stack1 == IF ran THEN execute(op, pre.stack, result) ELSE pre.stack
        fin == IF destLen(op) = 0 THEN [err |-> "nil", w |-> w]
               ELSE copyLastStackItemToMemory(destLen(op), input, stack1, w)
    IN  [err |-> IF fin.err # "nil" THEN fin.err ELSE err,
         presented |-> pre.err = "nil", stack |-> pre.stack, after |-> stack1,
         w |-> fin.w]

---------------------------------------------------------------------------
(* Host functions invoked with a wrong number of arguments *)

\* registerNativeFunction: len(params) # paramsCount, the host function logs the
\* mismatch and returns the Unknown code without reaching processOpcode
EvmHostCallBadArity(op) ==
    /\ Running /\ Top.pc = "host"
    /\ frames' = [frames EXCEPT ![Len(frames)] =
                      Halt([@ EXCEPT !.badArity = TRUE, !.evOp = op], "Unknown", "nil")]
    /\ UNCHANGED <<debug, limit, logger, world, depth, stateQueue, readOnly, returnData, logs, lastRun,
                   panicking, nRuns, nSteps>>

\* registerGasCheckFunction: len(params) # paramsCount, panic(ErrOutOfGas)
GasHostCallBadArity ==
    /\ Running /\ Top.pc = "host"
    /\ HostPanic([frames EXCEPT ![Len(frames)].badArity = TRUE,
                                ![Len(frames)].evOp = "gas"],
                 stateQueue, "error", "ErrOutOfGas")
    /\ UNCHANGED <<debug, limit, logger, world, returnData, logs, nRuns, nSteps>>

---------------------------------------------------------------------------
(* Specification *)

Init ==
    /\ debug \in BOOLEAN
    /\ limit = 0
    /\ depth = 0
    /\ stateQueue = <<>>
    /\ readOnly = FALSE
    /\ returnData = "nil"
    /\ logs = <<>>
    /\ frames = <<>>
    /\ lastRun = NoRun
    /\ panicking = "none"
    /\ nRuns = 0
    /\ nSteps = 0
    /\ logger = TestLogger
    /\ world = FreshWorld

Next ==
    \/ \E code \in Codes, input \in Inputs,
          injectOk \in BOOLEAN, gas \in GasLimits, ro \in ReadOnlyArgs :
            RunTop(code, input, injectOk, gas, ro)
    \/ WasmStep("const")
    \/ WasmCall
    \/ \E x \in EngineExits : EngineDone(x[1], x[2])
    \/ \E amount \in GasAmounts : GasHostCall(amount)
    \/ \E op \in PlainOps \cup CallOps, dyn \in DynCosts, overflow \in BOOLEAN,
          dynErr \in BOOLEAN, data \in Data :
            EvmHostCall(op, dyn, overflow, dynErr, data)
    \/ \E op \in CallOps, dyn \in DynCosts, code \in Codes,
          input \in Inputs, injectOk \in BOOLEAN, gas \in GasLimits :
            CallOpBegin(op, dyn, code, input, injectOk, gas)
    \/ CallOpEnd
    \/ PanicUnwind
    \/ \E dump \in EngineDumps : RunReturn(dump)

Spec == Init /\ [][Next]_vars

\* the machine whose outermost Run may also be a static call (readOnly = true)
NextReadOnly ==
    \/ Next
    \/ \E code \in Codes, input \in Inputs,
          injectOk \in BOOLEAN, gas \in GasLimits :
            RunTop(code, input, injectOk, gas, TRUE)

SpecReadOnly == Init /\ [][NextReadOnly]_vars

\* the machine called with empty and with non-empty input, its guests calling
\* contracts only
NextDeploy ==
    \/ \E code \in Codes, input \in AnyInputs, injectOk \in BOOLEAN,
          gas \in GasLimits :
            RunTop(code, input, injectOk, gas, FALSE)
    \/ WasmCall
    \/ \E x \in EngineExits : EngineDone(x[1], x[2])
    \/ \E op \in CallOps, dyn \in DynCosts, code \in Codes, input \in AnyInputs,
          injectOk \in BOOLEAN, gas \in GasLimits :
            CallOpBegin(op, dyn, code, input, injectOk, gas)
    \/ CallOpEnd
    \/ \E dump \in EngineDumps : RunReturn(dump)

SpecDeploy == Init /\ [][NextDeploy]_vars

\* the machine running guests that read and write their storage
NextStorage ==
    \/ \E code \in Codes, input \in Inputs, injectOk \in BOOLEAN, gas \in GasLimits :
            RunTop(code, input, injectOk, gas, FALSE)
    \/ WasmCall
    \/ \E x \in EngineExits : EngineDone(x[1], x[2])
    \/ \E op \in StorageOps, key \in Keys, val \in Vals, dyn \in DynCosts,
          dynErr \in BOOLEAN :
            StorageHostCall(op, key, val, dyn, dynErr)
    \/ \E dump \in EngineDumps : RunReturn(dump)

SpecStorage == Init /\ [][NextStorage]_vars

\* the machine in front of an engine whose dump may hold anything
NextTrace ==
    \/ \E code \in Codes, input \in Inputs, injectOk \in BOOLEAN, gas \in GasLimits :
            RunTop(code, input, injectOk, gas, FALSE)
    \/ WasmCall
    \/ \E x \in EngineExits : EngineDone(x[1], x[2])
    \/ \E amount \in GasAmounts : GasHostCall(amount)
    \/ \E op \in PlainOps \cup CallOps, dyn \in DynCosts, overflow \in BOOLEAN,
          dynErr \in BOOLEAN, data \in Data :
            EvmHostCall(op, dyn, overflow, dynErr, data)
    \/ \E op \in CallOps, dyn \in DynCosts, code \in Codes,
          input \in Inputs, injectOk \in BOOLEAN, gas \in GasLimits :
            CallOpBegin(op, dyn, code, input, injectOk, gas)
    \/ CallOpEnd
    \/ PanicUnwind
    \/ \E dump \in AnyEngineDumps : RunReturn(dump)

SpecTrace == Init /\ [][NextTrace]_vars

\* what the users of the logger hand to it
LoggerOps == {"nop", "call"}
Memories == {NilMemory, [nil |-> FALSE, Offset |-> 4, Value |-> <<171>>]}
WasmStacks == {<<7>>}
EvmStacks == {<<>>, <<1>>, <<2, 1>>}
TracedOps == {"ADDRESS", "SLOAD", "SSTORE"}
StopReasons == {"nil", "execution timeout"}
Ends == {[output |-> <<171>>, err |-> "nil"], [output |-> <<171>>, err |-> "ErrOutOfGas"]}
GlobalMemories == {Put(Put(EmptyMap, 0, <<1, 171>>), 4, <<2>>), Put(EmptyMap, 0, <<3>>)}
ContractAddr == 1

\* a state with one storage slot of the contract set
LoggerWorld == [FreshWorld EXCEPT !.storage = Put(EmptyMap, <<ContractAddr, 1>>, 9)]

\* a logger fresh from NewWebAssemblyLogger, with or without memory capture
InitLogger ==
    /\ debug = TRUE
    /\ limit = 0
    /\ depth = 0
    /\ stateQueue = <<>>
    /\ readOnly = FALSE
    /\ returnData = "nil"
    /\ logs = <<>>
    /\ frames = <<>>
    /\ lastRun = NoRun
    /\ panicking = "none"
    /\ nRuns = 0
    /\ nSteps = 0
    /\ logger \in {NewWebAssemblyLogger(em, FALSE) : em \in BOOLEAN}
    /\ world = LoggerWorld

\* evm.Call hands the EVM to the tracer before anything is captured
CallCaptureStart ==
    /\ ~logger.env
    /\ logger' = Called("CaptureStart", CaptureStart(logger))
    /\ UNCHANGED <<debug, limit, depth, stateQueue, readOnly, returnData, logs, frames,
                   lastRun, panicking, nRuns, nSteps, world>>

CallCaptureWasmState ==
    /\ logger.env
    /\ nSteps < MaxSteps
    /\ \E op \in LoggerOps, memory \in Memories, stack \in WasmStacks :
          logs' = CaptureWasmState(logs, nSteps, op, memory, stack, 100, 1)
    /\ logger' = Called("CaptureWasmState", AfterCapture(logger))
    /\ nSteps' = nSteps + 1
    /\ UNCHANGED <<debug, limit, depth, stateQueue, readOnly, returnData, frames,
                   lastRun, panicking, nRuns, world>>

\* the gas host function reports a charge; it follows the `call` record of its call
CallCaptureGasState ==
    /\ logger.env
    /\ nSteps < MaxSteps
    /\ ~CaptureGasStatePanics(logs) /\ ~CaptureGasStateOutOfRange(logs)
    /\ logs' = CaptureGasState(logs, 5, 100, 1, "nil")
    /\ logger' = Called("CaptureGasState", AfterCapture(logger))
    /\ nSteps' = nSteps + 1
    /\ UNCHANGED <<debug, limit, depth, stateQueue, readOnly, returnData, frames,
                   lastRun, panicking, nRuns, world>>

\* an EVM host function reports its opcode; it follows the `call` record of its call
CallCaptureState ==
    /\ logger.env
    /\ nSteps < MaxSteps
    /\ ~CaptureStatePanics(logs)
    /\ \E op \in TracedOps, stack \in EvmStacks :
          /\ logs' = CaptureState(logs, op, StorageDelta(logger, ContractAddr, op, stack),
                                  100, 2, 1, "nil")
          /\ logger' = Called("CaptureState",
                              CaptureStateLogger(logger, logs, ContractAddr, op, stack))
    /\ nSteps' = nSteps + 1
    /\ UNCHANGED <<debug, limit, depth, stateQueue, readOnly, returnData, frames,
                   lastRun, panicking, nRuns, world>>

CallStop ==
    /\ nSteps < MaxSteps
    /\ \E err \in StopReasons : logger' = Called("Stop", Stop(logger, err))
    /\ nSteps' = nSteps + 1
    /\ UNCHANGED <<debug, limit, depth, stateQueue, readOnly, returnData, logs, frames,
                   lastRun, panicking, nRuns, world>>

CallReset ==
    /\ nSteps < MaxSteps
    /\ logs' = <<>>
    /\ logger' = Called("Reset", Reset(logger))
    /\ nSteps' = nSteps + 1
    /\ UNCHANGED <<debug, limit, depth, stateQueue, readOnly, returnData, frames,
                   lastRun, panicking, nRuns, world>>

CallCaptureGlobalMemoryState ==
    /\ nSteps < MaxSteps
    /\ \E gm \in GlobalMemories :
          logger' = Called("CaptureGlobalMemoryState",
                           [CaptureGlobalMemoryState(logger, gm)
                                EXCEPT !.dumps = Append(@, gm)])
    /\ nSteps' = nSteps + 1
    /\ UNCHANGED <<debug, limit, depth, stateQueue, readOnly, returnData, logs, frames,
                   lastRun, panicking, nRuns, world>>

CallCaptureGlobalVariable ==
    /\ nSteps < MaxSteps
    /\ logger' = Called("CaptureGlobalVariable", CaptureGlobalVariable(logger, nSteps, 0, 5))
    /\ nSteps' = nSteps + 1
    /\ UNCHANGED <<debug, limit, depth, stateQueue, readOnly, returnData, logs, frames,
                   lastRun, panicking, nRuns, world>>

CallCaptureWasmFunctionCall ==
    /\ nSteps < MaxSteps
    /\ logger' = Called("CaptureWasmFunctionCall", CaptureWasmFunctionCall(logger, nSteps))
    /\ nSteps' = nSteps + 1
    /\ UNCHANGED <<debug, limit, depth, stateQueue, readOnly, returnData, logs, frames,
                   lastRun, panicking, nRuns, world>>

CallCaptureEnd ==
    /\ logger.env
    /\ nSteps < MaxSteps
    /\ \E e \in Ends : logger' = Called("CaptureEnd", CaptureEnd(logger, e.output, e.err))
    /\ nSteps' = nSteps + 1
    /\ UNCHANGED <<debug, limit, depth, stateQueue, readOnly, returnData, logs, frames,
                   lastRun, panicking, nRuns, world>>

NextLogger ==
    \/ CallCaptureStart
    \/ CallCaptureWasmState
    \/ CallCaptureGasState
    \/ CallCaptureState
    \/ CallStop
    \/ CallReset
    \/ CallCaptureGlobalMemoryState
    \/ CallCaptureGlobalVariable
    \/ CallCaptureWasmFunctionCall
    \/ CallCaptureEnd

\* the logger driven through its interface
SpecLogger == InitLogger /\ [][NextLogger]_vars

\* a logger fresh from NewWebAssemblyLogger, with or without a limit on its records
InitLoggerOrder ==
    /\ debug = TRUE
    /\ limit \in {0, 1}
    /\ depth = 0
    /\ stateQueue = <<>>
    /\ readOnly = FALSE
    /\ returnData = "nil"
    /\ logs = <<>>
    /\ frames = <<>>
    /\ lastRun = NoRun
    /\ panicking = "none"
    /\ nRuns = 0
    /\ nSteps = 0
    /\ logger = NewWebAssemblyLogger(FALSE, FALSE)
    /\ world = LoggerWorld

\* CaptureGasState called out of order: it panics before it touches the log
CallCaptureGasStatePanics ==
    /\ logger.env
    /\ nSteps < MaxSteps
    /\ CaptureGasStatePanics(logs) \/ CaptureGasStateOutOfRange(logs)
    /\ panicking' = IF CaptureGasStateOutOfRange(logs) THEN "index out of range"
                    ELSE "trace order is corrupted"
    /\ logger' = Called("CaptureGasState", logger)
    /\ nSteps' = nSteps + 1
    /\ UNCHANGED <<debug, limit, depth, stateQueue, readOnly, returnData, logs, frames,
                   lastRun, nRuns, world>>

\* CaptureState called out of order: it has tracked the storage of the opcode when it
\* panics, and has not touched the log
CallCaptureStatePanics ==
    /\ logger.env
    /\ nSteps < MaxSteps
    /\ CaptureStatePanics(logs)
    /\ panicking' = "trace order is corrupted"
    /\ \E op \in TracedOps, stack \in EvmStacks :
          logger' = Called("CaptureState",
                           CaptureStateLogger(logger, logs, ContractAddr, op, stack))
    /\ nSteps' = nSteps + 1
    /\ UNCHANGED <<debug, limit, depth, stateQueue, readOnly, returnData, logs, frames,
                   lastRun, nRuns, world>>

\* the logger driven through its interface by a caller that a panic takes down
NextLoggerOrder ==
    \/ panicking = "none" /\ NextLogger
    \/ panicking = "none" /\ CallCaptureGasStatePanics
    \/ panicking = "none" /\ CallCaptureStatePanics

SpecLoggerOrder == InitLoggerOrder /\ [][NextLoggerOrder]_vars

\* the linear memory of a guest
GuestMemory == <<17, 34, 51, 68>>

\* spans of the guest memory, and the bytes written to them
Offsets == {0, 2}
Sizes == {0, 2}
Writes == {<<170, 187>>}

\* an engine that holds a guest with four bytes of memory
InitMemory ==
    /\ debug = FALSE
    /\ limit = 0
    /\ depth = 0
    /\ stateQueue = <<>>
    /\ readOnly = FALSE
    /\ returnData = "nil"
    /\ logs = <<>>
    /\ frames = <<>>
    /\ lastRun = NoRun
    /\ panicking = "none"
    /\ nRuns = 0
    /\ nSteps = 0
    /\ logger = TestLogger
    /\ world = [FreshWorld EXCEPT !.memory = GuestMemory]

\* what world.call remembers of a call on the memory view
ViewCall(op, offset, size, ret, n, commit) ==
    [NoCall EXCEPT !.op = op, !.offset = offset, !.size = size, !.ret = ret, !.n = n,
                   !.commit = commit, !.nChanges = Len(world.changes)]

\* an opcode reads the guest memory: scope.Memory.GetCopy(offset, size)
ViewGetCopy(offset, size) ==
    /\ nSteps < MaxSteps
    /\ readMemoryOk(world, offset, size)
    /\ world' = [world EXCEPT !.call =
                     ViewCall("GetCopy", offset, size,
                              GetCopy(ScopeMemory, world, offset, size), 0, FALSE)]
    /\ nSteps' = nSteps + 1
    /\ UNCHANGED <<debug, limit, depth, stateQueue, readOnly, returnData, logs, frames,
                   lastRun, panicking, nRuns, logger>>

\* an opcode writes the guest memory: scope.Memory.Set(offset, size, value)
ViewSet(offset, value) ==
    /\ nSteps < MaxSteps
    /\ world' = [Set(ScopeMemory, world, offset, Len(value), value) EXCEPT !.call =
                     ViewCall("Set", offset, Len(value), value, 0, FALSE)]
    /\ nSteps' = nSteps + 1
    /\ UNCHANGED <<debug, limit, depth, stateQueue, readOnly, returnData, logs, frames,
                   lastRun, panicking, nRuns, logger>>

\* an opcode asks for the size of the guest memory: scope.Memory.Len()
ViewLen ==
    /\ nSteps < MaxSteps
    /\ world' = [world EXCEPT !.call =
                     ViewCall("Len", 0, 0, <<>>, MemoryLen(ScopeMemory), FALSE)]
    /\ nSteps' = nSteps + 1
    /\ UNCHANGED <<debug, limit, depth, stateQueue, readOnly, returnData, logs, frames,
                   lastRun, panicking, nRuns, logger>>

\* an opcode takes a span of the guest memory: scope.Memory.GetPtr(offset, size)
ViewGetPtr(offset, size) ==
    /\ nSteps < MaxSteps
    /\ LET r == GetPtr(ScopeMemory, offset, size)
       IN  world' = [world EXCEPT !.call =
                        ViewCall("GetPtr", offset, size, r.res, 0, r.commit)]
    /\ nSteps' = nSteps + 1
    /\ UNCHANGED <<debug, limit, depth, stateQueue, readOnly, returnData, logs, frames,
                   lastRun, panicking, nRuns, logger>>

\* the opcode invokes the commit handler GetPtr gave it
ViewCommit ==
    /\ nSteps < MaxSteps
    /\ world.call.op = "GetPtr"
    /\ LET c == world.call
           w == IF c.commit THEN writeMemory(world, c.offset, c.size, c.ret) ELSE world
       IN  world' = [w EXCEPT !.call = [c EXCEPT !.op = "commit",
                                                !.nChanges = Len(world.changes)]]
    /\ nSteps' = nSteps + 1
    /\ UNCHANGED <<debug, limit, depth, stateQueue, readOnly, returnData, logs, frames,
                   lastRun, panicking, nRuns, logger>>

NextMemory ==
    \/ \E offset \in Offsets, size \in Sizes : ViewGetCopy(offset, size)
    \/ \E offset \in Offsets, value \in Writes : ViewSet(offset, value)
    \/ ViewLen
    \/ \E offset \in Offsets, size \in Sizes : ViewGetPtr(offset, size)
    \/ ViewCommit

\* the guest memory view of a scope, used by the opcodes
SpecMemory == InitMemory /\ [][NextMemory]_vars

\* the opcodes whose host functions the guests of SpecShim call
ShimOps == {"ADDRESS", "BALANCE", "CALLDATASIZE", "TIMESTAMP", "SSTORE", "RETURN"}

\* the i32 arguments the guests pass: offsets into their memory, one of them with the
\* top bit set
ParamValues == {0, 8, 36, -1}

\* the value an opcode yields: zero, and a number of two bytes
Results == {<<>>, <<1, 2>>}

\* number of host calls of a guest of SpecShim
MaxCalls == 1

\* a guest with 72 bytes of memory, every byte different
ShimMemory == [i \in 1..72 |-> i]

\* an engine that holds such a guest, about to run it
InitShim ==
    /\ debug = FALSE
    /\ limit = 0
    /\ depth = 0
    /\ stateQueue = <<>>
    /\ readOnly = FALSE
    /\ returnData = "nil"
    /\ logs = <<>>
    /\ frames = <<>>
    /\ lastRun = NoRun
    /\ panicking = "none"
    /\ nRuns = 0
    /\ nSteps = 0
    /\ logger = TestLogger
    /\ world = [FreshWorld EXCEPT !.memory = ShimMemory]

\* the host function of an opcode, called by the guest with the right number of
\* arguments (registerNativeFunction, wasm.go:585-601); gas is the gas of the contract
HostFn(op, params, gas, dyn, dynErr, result) ==
    /\ nSteps < MaxCalls
    /\ Len(params) = wasmFunctionTypes(op)
    /\ LET input == toInput(params)
           r == processOpcode(op, input, gas, dyn, dynErr, result, world)
       IN  world' = [r.w EXCEPT !.call =
                        [NoCall EXCEPT !.op = op, !.params = params, !.input = input,
                                       !.presented = r.presented, !.stack = r.stack,
                                       !.after = r.after, !.err = r.err,
                                       !.memory0 = world.memory,
                                       !.nChanges = Len(world.changes)]]
    /\ nSteps' = nSteps + 1
    /\ UNCHANGED <<debug, limit, depth, stateQueue, readOnly, returnData, logs, frames,
                   lastRun, panicking, nRuns, logger>>

NextShim ==
    \E op \in ShimOps, params \in UNION {[1..n -> ParamValues] : n \in 1..2},
       gas \in GasLimits, dyn \in DynCosts, dynErr \in BOOLEAN, result \in Results :
          HostFn(op, params, gas, dyn, dynErr, result)

\* the EVM opcode host functions called by a guest
SpecShim == InitShim /\ [][NextShim]_vars

\* the i64 amounts a guest hands to env.gas: the least and the greatest negative
\* amount, and amounts that are not negative
Int64Amounts == {0 - 2 ^ (Bits64 - 1), -1, 0, 7}

\* the negative ones
NegativeAmounts == {a \in Int64Amounts : a < 0}

\* the gas a contract is called with: little, half the range of a uint64 and all of it
Uint64GasLimits == {10, 2 ^ (Bits64 - 1), 2 ^ Bits64 - 1}

\* env.gas called by the guest with an i64 (registerGasCheckFunction, wasm.go:748-753)
GasHostCallInt64(a) == GasHostCall(ToUint64(a))

\* the machine whose guests call env.gas only, with amounts of either sign
NextGas ==
    \/ \E code \in Codes, input \in Inputs, gas \in Uint64GasLimits :
          RunTop(code, input, TRUE, gas, FALSE)
    \/ WasmCall
    \/ \E x \in EngineExits : EngineDone(x[1], x[2])
    \/ \E a \in Int64Amounts : GasHostCallInt64(a)
    \/ \E dump \in EngineDumps : RunReturn(dump)

SpecGas == Init /\ [][NextGas]_vars

\* the function bodies handed to the injector
BodyOps == {"nop", "call", "end"}
Bodies == UNION {[1..n -> {Instr(o, 0) : o \in BodyOps}] : n \in 0..MaxBody}

\* a Contract object with some code, about to be run in deployment mode
InitInject ==
    /\ debug = FALSE
    /\ limit = 0
    /\ depth = 0
    /\ stateQueue = <<>>
    /\ readOnly = FALSE
    /\ returnData = "nil"
    /\ logs = <<>>
    /\ frames = <<>>
    /\ lastRun = NoRun
    /\ panicking = "none"
    /\ nRuns = 0
    /\ nSteps = 0
    /\ logger = TestLogger
    /\ world \in {[FreshWorld EXCEPT !.code = b] : b \in Bodies}

\* the deployment check of a Run with empty input on the same Contract object: the
\* injector is applied to contract.Code once more
InjectPass ==
    /\ world.passes < MaxPasses
    /\ world' = [world EXCEPT !.prev = world.code,
                              !.code = deployCode(world.code, "empty"),
                              !.passes = @ + 1]
    /\ UNCHANGED <<debug, limit, depth, stateQueue, readOnly, returnData, logs, frames,
                   lastRun, panicking, nRuns, nSteps, logger>>

SpecInject == InitInject /\ [][InjectPass]_vars

\* the machine with an engine that may hand a host function a wrong number of
\* arguments
NextArity ==
    \/ Next
    \/ \E op \in PlainOps \cup CallOps : EvmHostCallBadArity(op)
    \/ GasHostCallBadArity

SpecArity == Init /\ [][NextArity]_vars

\* the limits of the traced machine
Limits == {1, 2}

\* a fresh machine that traces with a logger whose cfg.Limit is set
InitLimit ==
    /\ debug = TRUE
    /\ limit \in Limits
    /\ depth = 0
    /\ stateQueue = <<>>
    /\ readOnly = FALSE
    /\ returnData = "nil"
    /\ logs = <<>>
    /\ frames = <<>>
    /\ lastRun = NoRun
    /\ panicking = "none"
    /\ nRuns = 0
    /\ nSteps = 0
    /\ logger = TestLogger
    /\ world = FreshWorld

SpecLimit == InitLimit /\ [][Next]_vars

---------------------------------------------------------------------------
(* Properties *)

\* a step that ends the host call in progress in the top frame: the host function
\* returns to the engine, or a panic takes it down
HostCallOver ==
    /\ frames # <<>>
    /\ Top.pc \in {"host", "incall"}
    /\ \/ Len(frames') < Len(frames)
       \/ /\ Len(frames') = Len(frames)
          /\ frames'[Len(frames)].pc \in {"run", "halted"}

\* a step in which the host call of the top frame returns Ok to the engine
HostCallOk ==
    /\ frames # <<>>
    /\ Top.pc \in {"host", "incall"}
    /\ Len(frames') = Len(frames)
    /\ frames'[Len(frames)].pc = "run"

\* the contract's gas when the host call in progress began
GasBeforeCall == IF Top.pc = "incall" THEN Top.evGas ELSE stateQueue[Len(frames)].Gas

\* a step in which env.gas charges successfully while tracing
GasChargeTraced ==
    /\ debug
    /\ HostCallOk
    /\ Top.pc = "host"
    /\ Len(logs') >= Top.callLen
    /\ logs'[Top.callLen].family = "GAS"

\* C1: in debug mode every host call leaves one EVM or GAS record, which takes the
\* place of the WASM `call` record of that call: when the host call is over the
\* log is as long as it was right after the `call` record was added.
C1_OneRecordPerHostCall ==
    [][(debug /\ HostCallOver) =>
          /\ Len(logs') = Top.callLen
          /\ logs'[Top.callLen].family \in {"EVM", "GAS"}]_vars

\* C2: when a call opcode recursed into Run and the inner frame emitted records,
\* the host call ends without a panic, the outer `call` record is the one that
\* becomes the outer EVM record, and the inner records stay after it, untouched.
C2_NestedRecordsAfterOuter ==
    [][(debug /\ HostCallOver /\ Top.pc = "incall" /\ Len(logs) > Top.callLen) =>
          /\ Len(frames') = Len(frames)
          /\ frames'[Len(frames)].pc = "run"
          /\ Len(logs') = Len(logs)
          /\ logs'[Top.callLen].family = "EVM"
          /\ logs'[Top.callLen].op = Top.evOp
          /\ \A i \in (Top.callLen + 1)..Len(logs) : logs'[i] = logs[i]]_vars

\* C3 as stated: every EVM and every GAS record is immediately preceded by a WASM
\* record whose opcode is `call`.
C3_PrecededByCall ==
    \A i \in 1..Len(logs) :
        logs[i].family \in {"EVM", "GAS"} =>
            /\ i > 1
            /\ logs[i - 1].family = "WASM"
            /\ logs[i - 1].op = "call"

\* C3 amended: an EVM or GAS record only ever enters the log by taking the place
\* of the WASM `call` record that is last in the log; it inherits that record's pc
\* and leaves the records before it as they were.
C3_UpgradesCallRecord ==
    [][\A i \in 1..Len(logs') :
          (logs'[i].family \in {"EVM", "GAS"} /\ (i > Len(logs) \/ logs[i] # logs'[i])) =>
              /\ i = Len(logs)
              /\ i = Len(logs')
              /\ logs[i].family = "WASM"
              /\ logs[i].op = "call"
              /\ logs'[i].pc = logs[i].pc
              /\ \A j \in 1..(i - 1) : logs'[j] = logs[j]]_vars

C3_Witness ==
    \E i \in 2..Len(logs) :
        /\ logs[i].family \in {"EVM", "GAS"}
        /\ logs[i - 1].family = "WASM"
        /\ logs[i - 1].op = "const"

\* C4 as stated: while a Run is active (at its host callbacks), the scope queue is
\* one shorter than the EVM depth.
C4_QueueIsDepthMinusOne ==
    frames # <<>> => Len(stateQueue) = depth - 1

\* C4 amended: at every Run entry and exit and at every host callback the scope
\* queue is as long as the EVM depth (one scope per active Run); length = depth - 1
\* holds only inside Run between the depth increment and the push of the new
\* scope, where Run checks it, and that check never fails.
C4_QueueEqualsDepth ==
    /\ Len(stateQueue) = depth
    /\ Len(frames) = depth
    /\ panicking # "string"

C4_Witness ==
    /\ depth = 2
    /\ Len(stateQueue) = 2
    /\ Top.pc = "host"
    /\ lastRun.path = "engine"

C6_GasIsInitialMinusCharges ==
    /\ \A k \in 1..Len(frames) :
          (k <= Len(stateQueue) /\ ~frames[k].evmFail) =>
              stateQueue[k].Gas = frames[k].gas0 - Sum(frames[k].charges)
    /\ (lastRun.path = "engine" /\ ~lastRun.evmFail) =>
          lastRun.gasLeft = lastRun.gas0 - Sum(lastRun.charges)
    /\ (lastRun.path = "engine" /\ ~lastRun.evmFail /\ lastRun.gas0 = 10000000
            /\ lastRun.charges = <<2750, 7086, 2>>) =>
          lastRun.gasLeft = 9990162

C6_Witness ==
    /\ lastRun.path = "engine"
    /\ lastRun.gas0 = 10000000
    /\ ~lastRun.evmFail
    /\ lastRun.charges = <<2750, 7086, 2>>
    /\ lastRun.err = "ExitCode"

FailedRunReturns ==
    /\ debug
    /\ frames # <<>>
    /\ Top.gasFail
    /\ Top.pc = "halted"
    /\ Len(frames') < Len(frames)

\* C8 as stated: when a gas charge failed in debug mode, the last record of the
\* log when Run returns is a GAS record with the out-of-gas error whose gas cost
\* is the overshoot, the part of the amount above the remaining gas.
C8_LastRecordHasOvershoot ==
    [][FailedRunReturns =>
          /\ Last(logs').family = "GAS"
          /\ Last(logs').err = "ErrOutOfGas"
          /\ Last(logs').gasCost = Top.failAmount - Top.failGas]_vars

\* C8 amended: that last record is a GAS record with the out-of-gas error whose
\* gas cost is the whole requested amount and whose gas is the remaining gas.
C8_LastRecordHasAmount ==
    [][FailedRunReturns =>
          /\ Last(logs').family = "GAS"
          /\ Last(logs').err = "ErrOutOfGas"
          /\ Last(logs').gasCost = Top.failAmount
          /\ Last(logs').gas = Top.failGas]_vars

C8_Witness ==
    /\ debug
    /\ lastRun.gasFail
    /\ logs # <<>>
    /\ Last(logs).family = "GAS"
    /\ Last(logs).gasCost > lastRun.failGas
    /\ lastRun.failGas > 0

C10_GasRecordHasGasAfter ==
    [][GasChargeTraced =>
          /\ logs'[Top.callLen].gasCost = Last(frames'[Len(frames)].charges)
          /\ logs'[Top.callLen].gas = stateQueue'[Len(frames)].Gas]_vars

\* C10 amended: the GAS record of a successful charge carries the amount as its
\* gas cost and, as its gas, the remaining gas before the amount is subtracted.
C10_GasRecordHasGasBefore ==
    [][GasChargeTraced =>
          /\ logs'[Top.callLen].gasCost = Last(frames'[Len(frames)].charges)
          /\ logs'[Top.callLen].err = "nil"
          /\ logs'[Top.callLen].gas = stateQueue[Len(frames)].Gas
          /\ logs'[Top.callLen].gas =
                stateQueue'[Len(frames)].Gas + logs'[Top.callLen].gasCost]_vars

C10_Witness ==
    \E i \in 1..Len(logs) :
        /\ logs[i].family = "GAS"
        /\ logs[i].err = "nil"
        /\ logs[i].gasCost = 2750
        /\ logs[i].gas = 10000000

\* C11 as stated: the error Run returns is determined by the engine's return code:
\* Ok gives nil, OutOfGas gives ErrOutOfGas, ExecutionReverted and Unknown give
\* ErrExecutionReverted, StopToken gives nil.
C11_ErrorFromCodeAlone ==
    lastRun.path = "engine" =>
        lastRun.err =
            CASE lastRun.res = "OutOfGas" -> "ErrOutOfGas"
              [] lastRun.res \in {"ExecutionReverted", "Unknown"} -> "ErrExecutionReverted"
              [] OTHER -> "nil"

\* C11 amended: OutOfGas gives ErrOutOfGas, ExecutionReverted and Unknown give
\* ErrExecutionReverted, StopToken gives nil; with the code Ok, Run returns the
\* error that ended ComputeResult (the guest's exit-code error, or the error a host
\* function panicked with), which is nil only when there was none.
C11_ErrorFromCodeAndEngineError ==
    lastRun.path = "engine" =>
        lastRun.err =
            CASE lastRun.res = "OutOfGas" -> "ErrOutOfGas"
              [] lastRun.res \in {"ExecutionReverted", "Unknown"} -> "ErrExecutionReverted"
              [] lastRun.res = "StopToken" -> "nil"
              [] OTHER -> lastRun.engErr

C11_Witness ==
    /\ lastRun.path = "engine"
    /\ lastRun.res = "Ok"
    /\ lastRun.engErr = "ExitCode"
    /\ lastRun.err = "ExitCode"

C13_DataDiscardedOnOtherErrors ==
    lastRun.path = "engine" =>
        /\ (lastRun.err = "ErrExecutionReverted" /\ lastRun.evErr = "ErrExecutionReverted") =>
              lastRun.data = lastRun.evData
        /\ lastRun.err \notin {"nil", "ErrExecutionReverted"} => lastRun.data = "nil"

\* C14: a run that ends through the RETURN host call returns a nil error and
\* exactly the bytes RETURN read from guest memory, whatever return data earlier
\* host calls of the run had stored.
C14_ReturnGivesItsBytes ==
    /\ (lastRun.path = "engine" /\ lastRun.evOp = "RETURN"
            /\ lastRun.evErr = "errStopToken") =>
          /\ lastRun.err = "nil"
          /\ lastRun.evData \in Data
          /\ lastRun.data = lastRun.evData
    /\ (frames # <<>> /\ Top.pc = "halted" /\ Top.evOp = "RETURN"
            /\ Top.evErr = "errStopToken") =>
          returnData = Top.evData

C14_Witness ==
    /\ ~debug
    /\ lastRun.path = "engine"
    /\ lastRun.depthIn = 0
    /\ lastRun.evOp = "RETURN"
    /\ lastRun.charges = <<103, 3>>
    /\ lastRun.data = "d2"
    /\ Len(logs) = 3
    /\ logs[2].depth = 2

\* C15: a Run that would raise the call depth above the limit fails with ErrDepth
\* without pushing a scope; the depth never exceeds the limit.
C15_DepthNeverAboveLimit ==
    /\ depth <= CallCreateDepth
    /\ Len(stateQueue) <= CallCreateDepth
    /\ (lastRun.path # "none" /\ lastRun.depthIn >= CallCreateDepth) =>
          lastRun.err = "ErrDepth"

\* C16: once a frame was entered with readOnly = true, the interpreter's readOnly
\* flag stays true until that frame exits, also during the Runs nested inside it
\* that are invoked with readOnly = false.
C16_ReadOnlyIsSticky ==
    \A k \in 1..Len(frames) : frames[k].roDefer => readOnly

OtherErrors == {"ErrGasUintOverflow", "ErrReturnDataOutOfBounds"}

C19_BadArityEndsUnknown ==
    /\ \A k \in 1..Len(frames) :
          frames[k].badArity =>
              /\ frames[k].pc = "halted"
              /\ frames[k].res = "Unknown"
    /\ lastRun.badArity =>
          /\ lastRun.res = "Unknown"
          /\ lastRun.err = "ErrExecutionReverted"
          /\ lastRun.gasLeft = lastRun.gas0 - Sum(lastRun.charges)

\* C20: with a limit the log never holds more than `limit` records, and once it
\* holds `limit` records every capture is dropped: no step changes a record of the
\* log, and no host call ends in a panic of the logger.
C20_CapturesDroppedAtLimit ==
    [][ /\ limit # 0 => Len(logs') <= limit
        /\ (limit # 0 /\ limit <= Len(logs)) =>
              /\ logs' = logs
              /\ (Running /\ Top.pc = "host" /\ ScopeOk(stateQueue, depth)) =>
                    ~(lastRun'.path = "panic" /\ Len(frames') < Len(frames)) ]_vars

\* C27: whenever a host callback or the logs callback runs inside a Run, Scope()
\* yields the scope pushed by the innermost active Run, the queue element at index
\* depth-1; once a nested Run has left, that is the scope of the outer Run again.
C27_ScopeIsInnermostRun ==
    (Running /\ Top.pc \in {"run", "host", "incall"}) =>
        /\ ScopeOk(stateQueue, depth)
        /\ Scope(stateQueue, depth) = stateQueue[(depth - 1) + 1]
        /\ Scope(stateQueue, depth).id = Top.id

C27_Witness ==
    /\ Running /\ Top.pc = "host"
    /\ Len(frames) = 1
    /\ nRuns = 2
    /\ lastRun.path = "engine"
    /\ Scope(stateQueue, depth).id = 1

\* C28: when a Run returns, in.readOnly has the value it had when that Run was
\* entered, whatever that value and the readOnly argument were.
C28_ReadOnlyRestored ==
    lastRun.path # "none" => lastRun.roOut = lastRun.roIn

\* C24 as stated: Run replaces contract.Code with the injector's output if and only
\* if the call input is empty; a Run with a non-empty input leaves it unchanged.
C24_CodeReplacedIffInputEmpty ==
    lastRun.path # "none" =>
        /\ (lastRun.codeOut # lastRun.codeIn) <=> (lastRun.input = "empty")
        /\ lastRun.codeOut # lastRun.codeIn => lastRun.codeOut = inject(lastRun.codeIn)

\* C24 amended: Run replaces contract.Code with the injector's output if and only if
\* the call input is empty, the contract has code and the injector succeeds; in every
\* other case, a non-empty input included, contract.Code is unchanged.
C24_CodeReplacedIffDeployed ==
    lastRun.path # "none" =>
        /\ (lastRun.codeOut # lastRun.codeIn) <=>
              /\ lastRun.input = "empty"
              /\ lastRun.codeIn # <<>>
              /\ lastRun.path # "inject"
        /\ lastRun.codeOut # lastRun.codeIn => lastRun.codeOut = inject(lastRun.codeIn)
        /\ lastRun.input = "nonempty" => lastRun.codeOut = lastRun.codeIn

C24_Witness ==
    /\ lastRun.path = "engine"
    /\ lastRun.input = "empty"
    /\ lastRun.codeIn = HelloCode
    /\ lastRun.codeOut =
          <<Instr("i64.const", 1), Instr("call", GasImportIndex), Instr("call", 0),
            Instr("i64.const", 1), Instr("call", GasImportIndex), Instr("end", 0)>>

CapturePoints == {"CaptureWasmState", "CaptureGasState", "CaptureState"}

\* a call of a capture point on a stopped tracer
StoppedCapture ==
    /\ logger.interrupt > 0
    /\ nSteps' = nSteps + 1
    /\ logger'.last \in CapturePoints

\* C21: once Stop(err) was called, every capture point asks the EVM to cancel and
\* leaves the trace log as it was, and GetResult returns err and no result.
C21_StopEndsCaptureAndResult ==
    [][/\ StoppedCapture => logs' = logs /\ logger'.cancels = logger.cancels + 1
       /\ logger'.interrupt > 0 =>
              GetResult(logger', logs') = [result |-> <<>>, err |-> logger'.reason]]_vars

\* C21, for the error of the latest Stop: once Stop(err) was called, every capture point
\* asks the EVM to cancel and leaves the trace log as it was; GetResult returns err, and
\* no result when err is not nil.
C21_StopEndsCapture ==
    [][/\ StoppedCapture => logs' = logs /\ logger'.cancels = logger.cancels + 1
       /\ logger'.interrupt > 0 => GetResult(logger', logs').err = logger'.reason
       /\ logger'.interrupt > 0 /\ logger'.reason # "nil" =>
              GetResult(logger', logs').result = <<>>]_vars

\* a stopped tracer with a record in its log has asked the EVM to cancel
C21_Witness ==
    /\ logger.interrupt > 0
    /\ logger.reason # "nil"
    /\ logger.last \in CapturePoints
    /\ logger.cancels > 0
    /\ Len(logs) > 0

\* C26: after Reset the logger holds nothing that was captured before: the trace log,
\* the storage, the output, the error, the globals, the function metadata and the
\* global-memory snapshot are all empty.
C26_ResetClearsEverything ==
    logger.last = "Reset" =>
        /\ logs = <<>>
        /\ logger.storage = EmptyMap
        /\ logger.output = <<>>
        /\ logger.err = "nil"
        /\ logger.globals = <<>>
        /\ logger.functionCalls = <<>>
        /\ logger.globalMemory = EmptyMap

\* a call of CaptureGasState or CaptureState that is not cut short by the interrupt
\* flag or the limit
UpgradeStep ==
    /\ logger.interrupt = 0
    /\ ~Limited(logs)
    /\ nSteps' = nSteps + 1
    /\ logger'.last \in {"CaptureGasState", "CaptureState"}

UnionOf(ds) ==
    LET holders(k) == {i \in 1..Len(ds) : k \in DOMAIN ds[i]}
        latest(k) == CHOOSE i \in holders(k) : \A j \in holders(k) : j <= i
    IN  [k \in UNION {DOMAIN ds[i] : i \in 1..Len(ds)} |-> ds[latest(k)][k]]

\* the memory changes held by the records of lg, one map per record
RecordChanges(lg) ==
    [i \in 1..Len(lg) |->
        IF lg[i].memSize > 0 THEN Put(EmptyMap, lg[i].memOffset, lg[i].memory)
        ELSE EmptyMap]

\* every value of m in hexadecimal digits
HexMap(m) == [k \in DOMAIN m |-> Hex(m[k])]

\* C23: the globalMemory of the formatted result is the union of the data segments the
\* engine dumped and of the memory changes held by the trace records, in hexadecimal
\* digits per offset.
C23_GlobalMemoryHasRecordChanges ==
    GetResult(logger, logs).result # <<>> =>
        GetResult(logger, logs).result[1].globalMemory =
            HexMap(UnionOf(logger.dumps \o RecordChanges(logs)))

\* C23, without the memory changes of the records: the globalMemory of the formatted
\* result is the union of the maps handed to CaptureGlobalMemoryState, a later map
\* overriding an earlier one, in hexadecimal digits per offset.
C23_GlobalMemoryIsDumpUnion ==
    GetResult(logger, logs).result # <<>> =>
        GetResult(logger, logs).result[1].globalMemory = HexMap(UnionOf(logger.dumps))

\* two dumps that disagree on offset 0 were captured, the later one decides; a record
\* with a memory change is in the log
C23_Witness ==
    /\ Len(logger.dumps) = 2
    /\ logger.dumps[1] # logger.dumps[2]
    /\ 0 \in DOMAIN logger.dumps[1] \cap DOMAIN logger.dumps[2]
    /\ \E i \in 1..Len(logs) : logs[i].memSize > 0
    /\ GetResult(logger, logs).result # <<>>
    /\ GetResult(logger, logs).result[1].globalMemory[0] = <<"0", "1", "a", "b">>

\* the last host call of frame f ended with a terminal error
TerminalError(f) ==
    \/ f.gasFail
    \/ f.evmFail
    \/ f.evErr \notin {"nil", "errStopToken"}

\* C29: once a host call has ended with a terminal error, nothing more is captured
\* for the rest of that Run: no trace record, no global variable, no global memory,
\* no function metadata.
C29_NoCaptureAfterTerminalError ==
    [][(Running /\ Top.pc = "halted" /\ TerminalError(Top)) =>
          logs' = logs /\ logger' = logger]_vars

\* the host call of SLOAD or SSTORE of the top frame has just returned to the guest
StorageCallOver ==
    /\ debug
    /\ Running /\ Top.pc = "run"
    /\ Top.evOp \in StorageOps
    /\ Top.callLen = Len(logs)
    /\ Last(logs).family = "EVM"

\* C22: after an SLOAD or SSTORE host call in debug mode with storage capture enabled,
\* the storage map of the contract and the storage delta of the call's EVM record hold
\* the slot key of the call, mapped to the value read (SLOAD) or written (SSTORE).
C22_StorageHoldsSlot ==
    StorageCallOver =>
        LET addr == Scope(stateQueue, depth).id
            key == Top.evKey
            value == IF Top.evOp = "SLOAD" THEN Top.evRead ELSE Top.evVal
            holds(m) == key \in DOMAIN m /\ m[key] = value
        IN  /\ addr \in DOMAIN logger.storage
            /\ holds(logger.storage[addr])
            /\ holds(Last(logs).storage)

\* a call of CaptureGasState or CaptureState on a log whose last record is not a WASM
\* `call` record, the empty log included
OutOfOrderCall ==
    /\ ~TraceOrderOk(logs)
    /\ nSteps' = nSteps + 1
    /\ logger'.last \in {"CaptureGasState", "CaptureState"}

\* C31 as stated: CaptureGasState and CaptureState panic with "trace order is
\* corrupted", leaving the log unchanged, whenever the last record of the log is not
\* a WASM `call` record, including when the log is empty.
C31_OutOfOrderPanics ==
    [][OutOfOrderCall =>
          /\ logs' = logs
          /\ panicking' = "trace order is corrupted"]_vars

\* C31 amended: on a log whose last record is not a WASM `call` record, the empty log
\* included, CaptureGasState and CaptureState leave the log unchanged; a tracer that
\* was stopped returns, CaptureState at its limit returns, CaptureGasState on the empty
\* log panics with an index-out-of-range runtime error, and in every other case the
\* call panics with "trace order is corrupted".
C31_OutOfOrderPanicsUnlessCutShort ==
    [][OutOfOrderCall =>
          /\ logs' = logs
          /\ panicking' =
                IF logger.interrupt > 0 THEN "none"
                ELSE IF logger'.last = "CaptureState" /\ Limited(logs) THEN "none"
                ELSE IF logger'.last = "CaptureGasState" /\ logs = <<>>
                     THEN "index out of range"
                ELSE "trace order is corrupted"]_vars

\* CaptureState has panicked on a log that ends with a record other than a `call`
C31_Witness ==
    /\ panicking = "trace order is corrupted"
    /\ logger.last = "CaptureState"
    /\ Len(logs) > 0
    /\ Last(logs).op # "call"

\* a Run whose injector failed has just returned
FailedInjection ==
    /\ nRuns' = nRuns + 1
    /\ lastRun'.id = nRuns'
    /\ lastRun'.path = "inject"

\* C32: if the injector fails in deployment mode, Run returns an error and nil return
\* data before execution starts: no scope is pushed, the engine is not loaded or run,
\* no trace record is added, contract.code is unchanged and the depth is restored.
C32_FailedInjectionStartsNothing ==
    [][FailedInjection =>
          /\ lastRun'.input = "empty"
          /\ lastRun'.err # "nil"
          /\ lastRun'.data = "nil"
          /\ Len(stateQueue') = Len(stateQueue)
          /\ ~lastRun'.loaded
          /\ Len(frames') = Len(frames)
          /\ logs' = logs
          /\ lastRun'.codeOut = lastRun'.codeIn
          /\ depth' = depth]_vars

\* the injector failed on the code of a contract called by a traced guest
C32_Witness ==
    /\ debug
    /\ lastRun.path = "inject"
    /\ lastRun.codeIn = HelloCode
    /\ Len(frames) = 1
    /\ Top.pc = "incall"
    /\ depth = 1
    /\ Len(logs) = 1

\* C33: for a guest memory view every operation delegates to the engine: read returns
\* the engine's bytes, write reaches the engine as a memory-change event, len() equals
\* the engine's memory size, and get_ptr(offset, n) with n > 0 returns the engine's
\* bytes together with a commit closure that, when invoked, emits a memory-change
\* event for [offset, offset+n).
C33_GuestViewDelegates ==
    LET c == world.call
        emitted == /\ Len(world.changes) = c.nChanges + 1
                   /\ Last(world.changes).Offset = c.offset
                   /\ Last(world.changes).Size = c.size
    IN  /\ c.op = "GetCopy" => c.ret = readMemory(world, c.offset, c.size)
        /\ c.op = "Set" => emitted /\ Last(world.changes).Value = c.ret
        /\ c.op = "Len" => c.n = memorySize(world)
        /\ c.op = "GetPtr" /\ c.size > 0 =>
               c.ret = readMemory(world, c.offset, c.size) /\ c.commit
        /\ c.op = "commit" /\ c.size > 0 => emitted

---------------------------------------------------------------------------
(* The operand stack and the result of an EVM opcode host call *)

\* the guest memory as it was when the last host function was called
Memory0 == [world EXCEPT !.memory = world.call.memory0]

\* the field type of the pre-processor an opcode is registered with for argument i,
\* "none" if there is none
preprocessorOf(op, i) ==
    LET pps == inputPreprocessors(op)
    IN  IF \E k \in 1..Len(pps) : pps[k].index = i
        THEN pps[CHOOSE k \in 1..Len(pps) : pps[k].index = i].fieldType
        ELSE "none"

\* C34: the operand stack an EVM opcode is executed on has argument 0 on top and
\* argument i at distance i from the top; where the opcode has a pre-processor for
\* argument i the item is the 20-byte address or the 32-byte word read from the
\* guest memory at the offset that is argument i, everywhere else it is the argument
C34_ArgumentsOnStack ==
    world.call.presented =>
        /\ Len(world.call.stack) = Len(world.call.input)
        /\ \A i \in 0..(Len(world.call.input) - 1) :
              Back(world.call.stack, i) =
                  IF preprocessorOf(world.call.op, i) = "none"
                  THEN NewInt(world.call.input[i + 1])
                  ELSE SetBytes(readMemory(Memory0, world.call.input[i + 1],
                                           fieldLen(preprocessorOf(world.call.op, i))))

\* BALANCE was called with the offset 8 of an address and the offset 36 of its result
C34_Witness ==
    /\ world.call.op = "BALANCE"
    /\ world.call.presented
    /\ world.call.input = <<8, 36>>
    /\ peek(world.call.stack) = [i \in 1..20 |-> 8 + i]
    /\ Back(world.call.stack, 1) = <<36>>

\* the last host call was an opcode with a copy-result finalizer, and it succeeded
CopiedResult ==
    /\ world.call.op \notin NoFinalizerOps \cup {"none"}
    /\ destLen(world.call.op) > 0
    /\ world.call.err = "nil"

\* C35: after an opcode with a copy-result finalizer of length dest_len has succeeded,
\* the engine was handed exactly one write, of dest_len bytes, at the offset that is
\* the last argument of the host call, and its content is the top of the stack,
\* padded with zeros on the left; dest_len is 20 for an address, 32 for a 256-bit
\* number or a hash, 4 for a size, 8 for a 64-bit number and 1 for a boolean
C35_ResultCopiedToGuest ==
    /\ \A op \in AddressOps : destLen(op) = 20
    /\ \A op \in Uint256Ops \cup HashOps : destLen(op) = 32
    /\ \A op \in SizeOps : destLen(op) = 4
    /\ \A op \in Uint64Ops : destLen(op) = 8
    /\ \A op \in BoolOps : destLen(op) = 1
    /\ CopiedResult =>
          /\ Len(world.changes) = world.call.nChanges + 1
          /\ Last(world.changes) =
                [Offset |-> world.call.params[Len(world.call.params)] % (2 ^ Bits32),
                 Size |-> destLen(world.call.op),
                 Value |-> Zeros(destLen(world.call.op) - Len(peek(world.call.after)))
                               \o peek(world.call.after)]

\* ADDRESS was called with the offset 36 and yielded the two bytes 1, 2
C35_Witness ==
    /\ CopiedResult
    /\ world.call.op = "ADDRESS"
    /\ world.call.params = <<36>>
    /\ world.changes = <<[Offset |-> 36, Size |-> 20, Value |-> Zeros(18) \o <<1, 2>>]>>
    /\ SubSeq(world.memory, 37, 56) = Zeros(18) \o <<1, 2>>

\* C37: every i32 argument of an EVM opcode host call is used as an unsigned 32-bit
\* number: the value put on the stack, or used as an offset into the guest memory, is
\* in [0, 2^32), also for an argument with the top bit set
C37_ArgumentsUnsigned32 ==
    world.call.op \in ShimOps =>
        \A i \in 1..Len(world.call.input) :
            /\ world.call.input[i] \in 0..(2 ^ Bits32 - 1)
            /\ world.call.input[i] = world.call.params[i] % (2 ^ Bits32)

\* C40: when an EVM opcode host call has failed (an error of a pre-processor, out of
\* gas, an error of the execution other than the stop token), the guest memory is as
\* it was before the call and the engine was handed no write
C40_FailedCallWritesNothing ==
    (world.call.op \in ShimOps /\ world.call.err \notin {"nil", "errStopToken"}) =>
        /\ world.memory = world.call.memory0
        /\ Len(world.changes) = world.call.nChanges

---------------------------------------------------------------------------
(* env.gas with a negative amount *)

\* the running guest is left out of gas by an env.gas of gasSpend, its gas as it was
OutOfGasUnchanged(gasSpend) ==
    /\ frames' # <<>>
    /\ frames'[Len(frames')].pc = "halted"
    /\ frames'[Len(frames')].gasFail
    /\ frames'[Len(frames')].failAmount = gasSpend
    /\ \/ frames'[Len(frames')].res = "OutOfGas"
       \/ frames'[Len(frames')].err = "ErrOutOfGas"
    /\ depth' = depth
    /\ Scope(stateQueue', depth').Gas = Scope(stateQueue, depth).Gas

\* C36 as stated: env.gas called with a negative i64 amount a is charged as
\* a + 2^64, and that always ends out of gas with the remaining gas unchanged
C36_NegativeAmountOutOfGas ==
    [][\A a \in NegativeAmounts :
          GasHostCallInt64(a) => OutOfGasUnchanged(a + 2 ^ Bits64)]_vars

\* C36: env.gas called with a negative i64 amount a is charged as a + 2^64, which
\* ends out of gas, with the remaining gas unchanged, whenever the remaining gas is
\* less than a + 2^64
C36_NegativeAmountOutOfGasWhenBelow ==
    [][\A a \in NegativeAmounts :
          (GasHostCallInt64(a) /\ Scope(stateQueue, depth).Gas < a + 2 ^ Bits64)
              => OutOfGasUnchanged(a + 2 ^ Bits64)]_vars

\* env.gas(-1) has left a guest that had 10 gas out of gas
C36_Witness ==
    /\ frames # <<>>
    /\ Top.pc = "halted"
    /\ Top.gasFail
    /\ Top.failAmount = 2 ^ Bits64 - 1
    /\ Top.failGas = 10
    /\ Scope(stateQueue, depth).Gas = 10

---------------------------------------------------------------------------
(* The replay of the engine's trace *)

\* C38: in debug mode, when the engine has exited, Run replays the trace of the
\* engine into the logger without failing: the global memory of the trace is merged
\* into the logger's, the globals list grows by one entry for every global-variable
\* write of the trace, in order, with its index and value, and the list of function
\* calls grows by one entry for every function of the trace
C38_ReplayOfTrace ==
    [][\A dump \in AnyEngineDumps :
          (debug /\ RunReturn(dump)) =>
              /\ panicking' = "none"
              /\ lastRun'.path = "engine"
              /\ logger'.globalMemory = Merge(logger.globalMemory, dump.GlobalMemory)
              /\ Len(logger'.globals) = Len(logger.globals) + Len(dump.GlobalVariables)
              /\ \A k \in 1..Len(dump.GlobalVariables) :
                    /\ logger'.globals[Len(logger.globals) + k].Index =
                           dump.GlobalVariables[k].Index
                    /\ logger'.globals[Len(logger.globals) + k].Value =
                           dump.GlobalVariables[k].Value
              /\ Len(logger'.functionCalls) =
                     Len(logger.functionCalls) + Len(dump.FnMetas)]_vars

---------------------------------------------------------------------------
(* Tracing and execution *)

\* every Run of a machine that does not trace gives its caller a result: no panic is
\* on its way out of a Run, and none has left one
UntracedRunsReturn == ~debug => (panicking = "none" /\ lastRun.path # "panic")

\* C39: tracing does not influence execution. The same contract with the same host
\* calls, nested calls included, gives every Run of an untraced machine a result
\* (UntracedRunsReturn), so it gives every Run of a traced machine one too
C39_TracingKeepsOutcome == debug => (panicking = "none" /\ lastRun.path # "panic")
====
